---- MODULE Spec2Model ----
(***************************************************************************)
(* Judge response pipeline of Yantra (domain/monitoring):                  *)
(*   DefaultLlmJudge      (llm_judge.py)     - "simple mode"               *)
(*   CustomMetricLlmJudge (custom_judge.py)  - "flatten mode"              *)
(*   LMStudioClient       (lm_studio_client.py) - a text-generation backend*)
(*                                                                         *)
(* A text is a sequence of symbols.  A symbol is one character, except     *)
(* that a JSON string literal, number literal or keyword is carried as one *)
(* symbol (the lexemes json.loads reads atomically).  The backtick         *)
(* character is written BT.  A Python value is a record [t, v]: t is the   *)
(* Python type, v the payload.                                             *)
(***************************************************************************)
EXTENDS Integers, Sequences, FiniteSets, TLC

\* ------------------------------------------------------------------ bounds
\* Largest number of items in an "evaluation" list of a backend output.
MaxItems == 2

\* ---------------------------------------------------------- Python values
PyText(s)  == [t |-> "text",  v |-> s]      \* str, as a sequence of symbols
PyBytes(s) == [t |-> "bytes", v |-> s]      \* bytes
PyNone     == [t |-> "null",  v |-> "None"] \* None / JSON null
PyStr(n)   == [t |-> "str",   v |-> n]      \* str, an atomic name
PyNum(n)   == [t |-> "num",   v |-> n]      \* int/float, by its literal
PyBool(b)  == [t |-> "bool",  v |-> b]      \* True/False, by its literal
PyList(xs) == [t |-> "list",  v |-> xs]     \* list
PyDict(ps) == [t |-> "dict",  v |-> ps]     \* dict: pairs [k, v] in insertion order
Unset      == [t |-> "unset", v |-> "unset"] \* a local that was never bound

\* ----------------------------------------------------------------- symbols
BT == "BT"                            \* the backtick character
Whitespace == {" ", "\n"}             \* what str.strip() and JSON skip
Fence     == <<BT, BT, BT>>           \* "```"
FenceJson == <<BT, BT, BT, "j", "s", "o", "n">>   \* "```json"

Q(n) == "\"" \o n \o "\""             \* the string literal of name n
\* a symbol is a string literal when it stands between double quotes
IsStrLit(sym) ==
    /\ Len(sym) >= 2
    /\ SubSeq(sym, 1, 1) = "\""
    /\ SubSeq(sym, Len(sym), Len(sym)) = "\""
\* the name a string literal stands for
StrOf(sym) == SubSeq(sym, 2, Len(sym) - 1)
NumLits  == {"0", "0.0", "3", "0.8", "0.9"}
BoolLits == {"true", "false"}

\* ------------------------------------------------------- str/bytes methods
\* str.lstrip(): drop leading whitespace only.
LStrip(s) ==
    LET keep == {i \in 1..Len(s) : s[i] \notin Whitespace}
    IN  IF keep = {} THEN <<>>
        ELSE SubSeq(s, CHOOSE i \in keep : \A j \in keep : i <= j, Len(s))

\* str.strip(): drop leading and trailing whitespace.
Strip(s) ==
    LET keep == {i \in 1..Len(s) : s[i] \notin Whitespace}
    IN  IF keep = {} THEN <<>>
        ELSE SubSeq(s, CHOOSE i \in keep : \A j \in keep : i <= j,
                       CHOOSE i \in keep : \A j \in keep : j <= i)

\* str.startswith(p) / str.endswith(p)
StartsWith(s, p) == Len(s) >= Len(p) /\ SubSeq(s, 1, Len(p)) = p
EndsWith(s, p)   == Len(s) >= Len(p) /\ SubSeq(s, Len(s) - Len(p) + 1, Len(s)) = p

\* text[n:] and text[:-n]
DropFirst(s, n) == SubSeq(s, n + 1, Len(s))
DropLast(s, n)  == SubSeq(s, 1, Len(s) - n)

\* re.search(r"(\{.*?\})", text, re.DOTALL): the non-greedy pattern, which
\* stops at the first "}".
ReSearchNonGreedy(s) ==
    LET opens == {i \in 1..Len(s) : s[i] = "{" /\ \E j \in (i+1)..Len(s) : s[j] = "}"}
    IN  IF opens = {} THEN [found |-> FALSE, group |-> <<>>]
        ELSE LET a == CHOOSE i \in opens : \A k \in opens : i <= k
                 closes == {j \in (a+1)..Len(s) : s[j] = "}"}
                 b == CHOOSE j \in closes : \A k \in closes : j <= k
             IN  [found |-> TRUE, group |-> SubSeq(s, a, b)]

\* re.search(r"(\{.*\})", text, re.DOTALL): the leftmost "{" that has a "}"
\* after it, through the last "}" (greedy, "." matches newlines too).
ReSearch(s) ==
    LET opens == {i \in 1..Len(s) : s[i] = "{" /\ \E j \in (i+1)..Len(s) : s[j] = "}"}
    IN  IF opens = {} THEN [found |-> FALSE, group |-> <<>>]
        ELSE LET a == CHOOSE i \in opens : \A k \in opens : i <= k
                 closes == {j \in (a+1)..Len(s) : s[j] = "}"}
                 b == CHOOSE j \in closes : \A k \in closes : k <= j
             IN  [found |-> TRUE, group |-> SubSeq(s, a, b)]

\* ------------------------------------------------------------ _extract_json
\* Each operator returns [out, caught]: the value returned and whether the
\* "except Exception" branch produced it.

\* ExtractDefault with re.match in place of re.search: the span is found
\* only when the text begins with "{".
ExtractDefaultMatch(text) ==
    IF text.t # "text" THEN [out |-> text, caught |-> TRUE]
    ELSE LET m == ReSearch(text.v)
         IN  [out |-> IF m.found /\ StartsWith(text.v, <<"{">>)
                      THEN PyText(m.group) ELSE text,
              caught |-> FALSE]

\* DefaultLlmJudge._extract_json: re.search over a non-str raises TypeError,
\* which the except branch answers with the argument.
ExtractDefault(text) ==
    IF text.t # "text" THEN [out |-> text, caught |-> TRUE]
    ELSE LET m == ReSearch(text.v)
         IN  [out |-> IF m.found THEN PyText(m.group) ELSE text, caught |-> FALSE]

\* ExtractCustom with `elif` for the second opening test: a "```json"
\* marker and a "```" marker after it are not both removed.
ExtractCustomElif(text) ==
    IF text.t = "null" THEN [out |-> text, caught |-> TRUE]
    ELSE LET t1 == Strip(text.v) IN
         IF text.t = "bytes" THEN [out |-> PyBytes(t1), caught |-> TRUE]
         ELSE LET t3 == IF StartsWith(t1, FenceJson) THEN DropFirst(t1, 7)
                        ELSE IF StartsWith(t1, Fence) THEN DropFirst(t1, 3) ELSE t1
                  t4 == IF EndsWith(t3, Fence) THEN DropLast(t3, 3) ELSE t3
                  m  == ReSearch(t4)
              IN  [out |-> PyText(IF m.found THEN m.group ELSE t4), caught |-> FALSE]

\* CustomMetricLlmJudge._extract_json: `text` is rebound by strip() and by
\* each slice, so the except branch returns whatever `text` is bound to when
\* the error occurs.  None has no strip() (AttributeError before any
\* rebinding); bytes.strip() succeeds and bytes.startswith(str) raises
\* TypeError.
ExtractCustom(text) ==
    IF text.t = "null" THEN [out |-> text, caught |-> TRUE]
    ELSE LET t1 == Strip(text.v) IN
         IF text.t = "bytes" THEN [out |-> PyBytes(t1), caught |-> TRUE]
         ELSE LET t2 == IF StartsWith(t1, FenceJson) THEN DropFirst(t1, 7) ELSE t1
                  t3 == IF StartsWith(t2, Fence) THEN DropFirst(t2, 3) ELSE t2
                  t4 == IF EndsWith(t3, Fence) THEN DropLast(t3, 3) ELSE t3
                  m  == ReSearch(t4)
              IN  [out |-> PyText(IF m.found THEN m.group ELSE t4), caught |-> FALSE]

\* --------------------------------------------------------------- dict ops
\* d[k] = v on an insertion-ordered dict: an existing key keeps its place.
DictKeys(ps) == {ps[i].k : i \in 1..Len(ps)}
DictPut(ps, k, v) ==
    IF k \in DictKeys(ps)
    THEN [i \in 1..Len(ps) |-> IF ps[i].k = k THEN [k |-> k, v |-> v] ELSE ps[i]]
    ELSE Append(ps, [k |-> k, v |-> v])
\* d.get(k): the value under k, None when absent.
DictGet(ps, k) ==
    IF k \in DictKeys(ps)
    THEN (ps[CHOOSE i \in 1..Len(ps) : ps[i].k = k]).v
    ELSE PyNone

\* --------------------------------------------------------------- json.loads
\* Recursive descent over the symbols, as json.loads reads a document: one
\* value with optional whitespace around it; anything else is a
\* JSONDecodeError.  A parse result is [ok, val, next].
ParseFail == [ok |-> FALSE, val |-> PyNone, next |-> 0]
ParseOk(val, next) == [ok |-> TRUE, val |-> val, next |-> next]

SkipWs(s, i) ==
    LET stops == {j \in i..Len(s) : s[j] \notin Whitespace}
    IN  IF stops = {} THEN Len(s) + 1
        ELSE CHOOSE j \in stops : \A k \in stops : j <= k

At(s, i, sym) == i <= Len(s) /\ s[i] = sym

RECURSIVE ParseValue(_, _), ParseMembers(_, _, _), ParseElems(_, _, _)

\* value at (or after whitespace from) position i0
ParseValue(s, i0) ==
    LET i == SkipWs(s, i0) IN
    IF i > Len(s) THEN ParseFail
    ELSE IF IsStrLit(s[i])   THEN ParseOk(PyStr(StrOf(s[i])), i + 1)
    ELSE IF s[i] \in NumLits  THEN ParseOk(PyNum(s[i]), i + 1)
    ELSE IF s[i] \in BoolLits THEN ParseOk(PyBool(s[i]), i + 1)
    ELSE IF s[i] = "null"     THEN ParseOk(PyNone, i + 1)
    ELSE IF s[i] = "{" THEN
        LET j == SkipWs(s, i + 1) IN
        IF At(s, j, "}") THEN ParseOk(PyDict(<<>>), j + 1)
        ELSE ParseMembers(s, j, <<>>)
    ELSE IF s[i] = "[" THEN
        LET j == SkipWs(s, i + 1) IN
        IF At(s, j, "]") THEN ParseOk(PyList(<<>>), j + 1)
        ELSE ParseElems(s, j, <<>>)
    ELSE ParseFail

\* members of an object from position i (a key is due), acc the pairs so far;
\* a repeated key keeps its first place and takes the last value.
ParseMembers(s, i, acc) ==
    IF ~(i <= Len(s) /\ IsStrLit(s[i])) THEN ParseFail
    ELSE LET c == SkipWs(s, i + 1) IN
         IF ~At(s, c, ":") THEN ParseFail
         ELSE LET r == ParseValue(s, c + 1) IN
              IF ~r.ok THEN ParseFail
              ELSE LET acc2 == DictPut(acc, StrOf(s[i]), r.val)
                       e == SkipWs(s, r.next)
                   IN  IF At(s, e, "}") THEN ParseOk(PyDict(acc2), e + 1)
                       ELSE IF At(s, e, ",") THEN ParseMembers(s, SkipWs(s, e + 1), acc2)
                       ELSE ParseFail

\* elements of an array from position i (a value is due)
ParseElems(s, i, acc) ==
    LET r == ParseValue(s, i) IN
    IF ~r.ok THEN ParseFail
    ELSE LET acc2 == Append(acc, r.val)
             e == SkipWs(s, r.next)
         IN  IF At(s, e, "]") THEN ParseOk(PyList(acc2), e + 1)
             ELSE IF At(s, e, ",") THEN ParseElems(s, e + 1, acc2)
             ELSE ParseFail

\* json.loads(x): [exc, val].  str and bytes documents are parsed alike; any
\* other argument is a TypeError.
JsonLoads(x) ==
    IF x.t \notin {"text", "bytes"} THEN [exc |-> "TypeError", val |-> PyNone]
    ELSE LET r == ParseValue(x.v, 1) IN
         IF r.ok /\ SkipWs(x.v, r.next) > Len(x.v)
         THEN [exc |-> "none", val |-> r.val]
         ELSE [exc |-> "JSONDecodeError", val |-> PyNone]

\* ------------------------------------------------------- Python built-ins
\* str.lower() on the names in use
Lower(n) ==
    CASE n = "Score"      -> "score"
      [] n = "metricName" -> "metricname"
      [] OTHER            -> n

\* bool(x): the truth value `if metric_name:` tests
Truthy(x) ==
    CASE x.t = "null" -> FALSE
      [] x.t = "str"  -> x.v # ""
      [] x.t = "num"  -> x.v \notin {"0", "0.0"}
      [] x.t = "bool" -> x.v = "true"
      [] x.t \in {"list", "dict", "text", "bytes"} -> x.v # <<>>
      [] OTHER -> FALSE

\* f"{x}" for the values that can stand as a metric name
Fmt(x) ==
    CASE x.t = "bool" -> (IF x.v = "true" THEN "True" ELSE "False")
      [] x.t = "null" -> "None"
      [] OTHER        -> x.v

\* isinstance(v, (str, int, float, bool))
IsSimple(x) == x.t \in {"str", "text", "num", "bool"}

\* ----------------------------------------------------------------- judge
\* The outcome of a call: [exc, ret].  exc = "none" when the call returned.
Returned(d) == [exc |-> "none", ret |-> PyDict(d)]
Raised(e)   == [exc |-> e, ret |-> Unset]

\* LowerKeys keeping the first value met for a lower-cased key
RECURSIVE LowerKeysFirstWins(_, _, _)
LowerKeysFirstWins(ps, i, acc) ==
    IF i > Len(ps) THEN acc
    ELSE LowerKeysFirstWins(ps, i + 1,
             IF Lower(ps[i].k) \in DictKeys(acc) THEN acc
             ELSE DictPut(acc, Lower(ps[i].k), ps[i].v))

\* {k.lower(): v for k, v in result.items()}
RECURSIVE LowerKeys(_, _, _)
LowerKeys(ps, i, acc) ==
    IF i > Len(ps) THEN acc
    ELSE LowerKeys(ps, i + 1, DictPut(acc, Lower(ps[i].k), ps[i].v))

\* DefaultLlmJudge.judge, lines 45-55: parse and normalise, simple mode
NormalizeDefault(raw_output, clean_output) ==
    LET p == JsonLoads(clean_output) IN
    IF p.exc = "JSONDecodeError"
    THEN Returned(<< [k |-> "score", v |-> PyNum("0.0")],
                     [k |-> "explanation", v |-> PyStr("Failed to parse Judge output.")],
                     [k |-> "raw", v |-> raw_output] >>)
    ELSE IF p.exc # "none" THEN Raised(p.exc)
    ELSE IF p.val.t # "dict" THEN Raised("AttributeError")   \* result.items()
    ELSE Returned(LowerKeys(p.val.v, 1, <<>>))

\* KeepSimple with isinstance(v, str): numbers and booleans are dropped
RECURSIVE KeepStrings(_, _, _)
KeepStrings(ps, i, acc) ==
    IF i > Len(ps) THEN acc
    ELSE KeepStrings(ps, i + 1,
                     IF ps[i].v.t \in {"str", "text"}
                     THEN DictPut(acc, ps[i].k, ps[i].v) ELSE acc)

\* for k, v in parsed_json.items(): keep the simple values
RECURSIVE KeepSimple(_, _, _)
KeepSimple(ps, i, acc) ==
    IF i > Len(ps) THEN acc
    ELSE KeepSimple(ps, i + 1,
                    IF IsSimple(ps[i].v) THEN DictPut(acc, ps[i].k, ps[i].v) ELSE acc)

\* FlattenItems with dict.setdefault in place of assignment: the first item
\* of a name keeps its fields.
RECURSIVE FlattenItemsFirstWins(_, _, _)
FlattenItemsFirstWins(items, i, flat) ==
    IF i > Len(items) THEN [exc |-> "none", flat |-> flat]
    ELSE IF items[i].t # "dict" THEN [exc |-> "AttributeError", flat |-> flat]
    ELSE LET metric_name == DictGet(items[i].v, "metricName")
             score       == DictGet(items[i].v, "score")
             rationale   == DictGet(items[i].v, "rationale")
             ks == Fmt(metric_name) \o "_score"
             kr == Fmt(metric_name) \o "_rationale"
             f1 == IF ks \in DictKeys(flat) THEN flat ELSE DictPut(flat, ks, score)
             f2 == IF kr \in DictKeys(f1) THEN f1 ELSE DictPut(f1, kr, rationale)
         IN  FlattenItemsFirstWins(items, i + 1,
                 IF Truthy(metric_name) THEN f2 ELSE flat)

\* for item in evaluations: [exc, flat]; item.get on a non-dict raises
RECURSIVE FlattenItems(_, _, _)
FlattenItems(items, i, flat) ==
    IF i > Len(items) THEN [exc |-> "none", flat |-> flat]
    ELSE IF items[i].t # "dict" THEN [exc |-> "AttributeError", flat |-> flat]
    ELSE LET metric_name == DictGet(items[i].v, "metricName")
             score       == DictGet(items[i].v, "score")
             rationale   == DictGet(items[i].v, "rationale")
         IN  FlattenItems(items, i + 1,
                 IF Truthy(metric_name)
                 THEN DictPut(DictPut(flat, Fmt(metric_name) \o "_score", score),
                              Fmt(metric_name) \o "_rationale", rationale)
                 ELSE flat)

\* NormalizeCustom reporting the extracted text instead of the raw output
NormalizeCustomCleanAsRaw(raw_output, clean_output) ==
    LET p == JsonLoads(clean_output) IN
    IF p.exc = "JSONDecodeError"
    THEN Returned(<< [k |-> "error", v |-> PyStr("Failed to parse Judge output")],
                     [k |-> "raw_output", v |-> clean_output] >>)
    ELSE IF p.exc # "none" THEN Raised(p.exc)
    ELSE IF p.val.t # "dict" THEN Raised("AttributeError")   \* parsed_json.items()
    ELSE LET flat0 == KeepSimple(p.val.v, 1, <<>>)
             evaluations == IF "evaluation" \in DictKeys(p.val.v)
                            THEN DictGet(p.val.v, "evaluation") ELSE PyList(<<>>)
             f == IF evaluations.t = "list"
                  THEN FlattenItems(evaluations.v, 1, flat0)
                  ELSE [exc |-> "none", flat |-> flat0]
         IN  IF f.exc # "none" THEN Raised(f.exc)
             ELSE Returned(DictPut(f.flat, "raw_llm_json", clean_output))

\* CustomMetricLlmJudge.judge, lines 70-109: parse and normalise, flatten mode
NormalizeCustom(raw_output, clean_output) ==
    LET p == JsonLoads(clean_output) IN
    IF p.exc = "JSONDecodeError"
    THEN Returned(<< [k |-> "error", v |-> PyStr("Failed to parse Judge output")],
                     [k |-> "raw_output", v |-> raw_output] >>)
    ELSE IF p.exc # "none" THEN Raised(p.exc)
    ELSE IF p.val.t # "dict" THEN Raised("AttributeError")   \* parsed_json.items()
    ELSE LET flat0 == KeepSimple(p.val.v, 1, <<>>)
             evaluations == IF "evaluation" \in DictKeys(p.val.v)
                            THEN DictGet(p.val.v, "evaluation") ELSE PyList(<<>>)
             f == IF evaluations.t = "list"
                  THEN FlattenItems(evaluations.v, 1, flat0)
                  ELSE [exc |-> "none", flat |-> flat0]
         IN  IF f.exc # "none" THEN Raised(f.exc)
             ELSE Returned(DictPut(f.flat, "raw_llm_json", clean_output))

\* ------------------------------------------------------- backend outputs
\* Texts a backend may produce, built from JSON documents, prose and fences.
RECURSIVE Join(_, _)
Join(parts, sep) ==
    IF parts = <<>> THEN <<>>
    ELSE IF Len(parts) = 1 THEN parts[1]
    ELSE parts[1] \o sep \o Join(Tail(parts), sep)

Member(k, vtext)  == <<Q(k), ":", " ">> \o vtext
ObjText(members)  == <<"{">> \o Join(members, <<",", " ">>) \o <<"}">>
ListText(elems)   == <<"[">> \o Join(elems, <<",", " ">>) \o <<"]">>
ItemText(name, score, rationale) ==
    ObjText(<<Member("metricName", name), Member("score", score),
              Member("rationale", rationale)>>)

\* items of an "evaluation" list
ItemTexts ==
    { ItemText(<<Q("tone")>>,  <<"0.8">>, <<Q("ok")>>),
      ItemText(<<Q("tone")>>,  <<"0.9">>, <<Q("good")>>),
      ItemText(<<Q("depth")>>, <<"0.9">>, <<Q("ok")>>),
      ItemText(<<Q("depth")>>, ObjText(<<Member("score", <<"0.8">>)>>),
                               ListText(<< <<Q("ok")>> >>)),
      ItemText(<<Q("depth")>>, <<"null">>, <<"null">>),
      ItemText(<<Q("")>>,      <<"0.8">>, <<Q("ok")>>),
      ItemText(<<"null">>,     <<"0.8">>, <<Q("ok")>>),
      ObjText(<<Member("score", <<"0.8">>), Member("rationale", <<Q("ok")>>)>>),
      <<"3">> }

ItemLists == UNION {[1..n -> ItemTexts] : n \in 0..MaxItems}

TopMembers ==
    { <<>>,
      << Member("title", <<Q("good")>>) >>,
      << Member("tone_score", <<"3">>), Member("raw_llm_json", <<Q("ok")>>) >> }

EvalBodies ==
    { ObjText(top \o << Member("evaluation", ListText(items)) >>) :
          top \in TopMembers, items \in ItemLists }

CoreBodies ==
    { <<>>,
      <<"{", "}">>,
      <<"3">>, <<"null">>, <<Q("ok")>>, <<"[", "]">>,
      ObjText(<<Member("score", <<"0.9">>), Member("explanation", <<Q("good")>>)>>),
      ObjText(<<Member("Score", <<"0.9">>), Member("score", <<"0.8">>)>>),
      ObjText(<<Member("score", <<"0.9">>), Member("score", <<"0.8">>)>>),
      ObjText(<<Member("evaluation", <<Q("ok")>>)>>),
      ObjText(<<Member("evaluation", <<"null">>)>>),
      <<"{", Q("score"), ":", " ", "0.9", ",", "}">>,
      <<"{">>,
      <<"}", " ", "{">>,
      <<"{", "j", "}">>,
      <<"{", "}", "\n", "{", "}">>,
      ObjText(<<Member("score", <<"0.9">>)>>) \o <<" ", "s", "o", " ">>
          \o ObjText(<<Member("score", <<"0.8">>)>>),
      <<"s", "o">> }

Prefixes == { <<>>, <<" ">>, Fence, FenceJson \o <<"\n">>, FenceJson \o Fence,
              <<"s", "o", " ">> \o FenceJson \o <<"\n">> }
Suffixes == { <<>>, <<"\n">>, Fence, <<"\n">> \o Fence, Fence \o <<"\n">>,
              Fence \o Fence }

Outputs ==
    {p \o b \o x : p \in Prefixes, b \in CoreBodies, x \in Suffixes}
    \cup EvalBodies
    \cup {FenceJson \o <<"\n">> \o b \o <<"\n">> \o Fence : b \in EvalBodies}

\* values a backend that ignores the `-> str` annotation may hand back
NonStrOutputs ==
    {PyNone} \cup
    {PyBytes(p \o b \o x) : p \in {<<>>, <<" ">>, Fence}, x \in {<<>>, <<"\n">>},
         b \in {<<>>, <<"{", "}">>, <<"3">>, <<"{">>, <<"s", "o">>,
                ObjText(<<Member("score", <<"0.9">>)>>)}}

\* ---------------------------------------------------------------- backends
\* LMStudioClient.generate on the HTTP exchange `resp`: [exc, ret].
\*   requests.post raises on a timeout or a refused connection;
\*   raise_for_status raises HTTPError on a 4xx/5xx status;
\*   r.json() raises on a body that is not JSON;
\*   a body without choices[0].message.content is returned re-serialised.
NoChoicesBody == ObjText(<<Member("error", <<Q("busy")>>)>>)
LMStudioGenerate(resp) ==
    CASE resp.kind = "timeout"     -> [exc |-> "Timeout", ret |-> Unset]
      [] resp.kind = "refused"     -> [exc |-> "ConnectionError", ret |-> Unset]
      [] resp.kind = "status"      -> [exc |-> "HTTPError", ret |-> Unset]
      [] resp.kind = "not_json"    -> [exc |-> "JSONDecodeError", ret |-> Unset]
      [] resp.kind = "no_choices"  -> [exc |-> "none", ret |-> PyText(NoChoicesBody)]
      [] resp.kind = "completion"  -> [exc |-> "none", ret |-> resp.content]

LMContents ==
    {PyNone} \cup
    {PyText(b) : b \in {<<>>, <<"{", "}">>, <<"3">>,
                        ObjText(<<Member("score", <<"0.9">>),
                                  Member("explanation", <<Q("good")>>)>>)}}
LMResponses ==
    {[kind |-> k, content |-> Unset] :
         k \in {"timeout", "refused", "status", "not_json", "no_choices"}}
    \cup {[kind |-> "completion", content |-> c] : c \in LMContents}

\* json.dumps({"score": 0.0, "explanation": expl})
FallbackJson(expl) ==
    PyText(ObjText(<<Member("score", <<"0.0">>), Member("explanation", <<Q(expl)>>)>>))

\* GeminiClient._extract_text(response): always a str
ExtractText(resp) ==
    CASE resp.kind = "safety"      -> FallbackJson("Blocked by Safety Filter (SAFETY)")
      [] resp.kind = "text"        -> resp.content
      [] resp.kind = "empty"       -> PyText(<<>>)
      [] resp.kind = "value_error" -> FallbackJson("Empty/Blocked Response")
      [] resp.kind = "other_error" -> PyText(<<>>)

\* GeminiClient.generate on the exchange `resp`: [exc, ret].
\*   GenerateContentConfig(**merged_params) is built before the try block,
\*   so generation options it rejects raise out of generate;
\*   an exception of generate_content is answered with a fallback JSON text;
\*   everything else goes through _extract_text.
GeminiGenerate(resp) ==
    IF resp.options = "invalid" THEN [exc |-> "ValidationError", ret |-> Unset]
    ELSE IF resp.kind = "api_error"
    THEN [exc |-> "none", ret |-> FallbackJson("API Error: 503")]
    ELSE [exc |-> "none", ret |-> ExtractText(resp)]

GeminiContents ==
    {PyText(b) : b \in {<<"{", "}">>, <<"s", "o">>,
                        FenceJson \o <<"\n">> \o
                        ObjText(<<Member("score", <<"0.9">>),
                                  Member("explanation", <<Q("good")>>)>>)
                        \o <<"\n">> \o Fence}}
GeminiResponses ==
    {[options |-> o, kind |-> k, content |-> Unset] :
         o \in {"valid", "invalid"},
         k \in {"api_error", "safety", "empty", "value_error", "other_error"}}
    \cup {[options |-> o, kind |-> "text", content |-> c] :
              o \in {"valid", "invalid"}, c \in GeminiContents}

\* llm_client.generate(meta_prompt) for each kind of backend: the set of
\* outcomes [exc, ret] it can produce.
\*   "stub":     any backend that honours ILlmClient (always returns a str)
\*   "untyped":  a backend that returns a value that is not a str
\*   "LMStudioClient", "GeminiClient": the two adapters of the library
Adapters == {"LMStudioClient", "GeminiClient"}
Backends == {"stub", "untyped"} \cup Adapters
GenerateOutcomes(b) ==
    CASE b = "stub"    -> {[exc |-> "none", ret |-> PyText(o)] : o \in Outputs}
      [] b = "untyped" -> {[exc |-> "none", ret |-> v] : v \in NonStrOutputs}
      [] b = "LMStudioClient" -> {LMStudioGenerate(r) : r \in LMResponses}
      [] b = "GeminiClient"   -> {GeminiGenerate(r) : r \in GeminiResponses}

\* ------------------------------------------------------------------ render
Judges   == {"DefaultLlmJudge", "CustomMetricLlmJudge"}
Subjects == {"subject text"}
RulesDumps == {"{\n  \"tone\": \"polite\"\n}"}

\* prompt_template.format(rules=json.dumps(rules, indent=2), prompt=prompt)
\* on a template given as its literal chunks and replacement fields.
DefaultTemplate(c) ==
    IF c = "DefaultLlmJudge"
    THEN << "You are an impartial evaluation judge. \nRules:\n", "{rules}",
            "\n\nTask Input/Output to Evaluate:\n", "{prompt}",
            "\n\nEvaluate the response based strictly on the rules.\n...JSON:" >>
    ELSE << "You are an impartial evaluation judge.\n...### Input to Evaluate:\n",
            "{prompt}", "\n\n### Metrics Configuration:\n", "{rules}",
            "\n\n### Instructions:\n...### Output JSON:\n" >>

\* str.format(rules=..., prompt=...) reads the template left to right:
\*   "{rules}" and "{prompt}" are replaced, "{{" and "}}" give one brace,
\*   a lone "{" or "}" raises ValueError, "{}" asks for a positional
\*   argument and raises IndexError, any other field raises KeyError.
\* The result is [exc, out].
UnknownFields == {"{\"score\": 0.9}", "{input}"}
RECURSIVE FormatFrom(_, _, _, _, _)
FormatFrom(template, i, rules, prompt, acc) ==
    IF i > Len(template) THEN [exc |-> "none", out |-> PyStr(acc)]
    ELSE LET ch == template[i] IN
         IF ch \in {"{", "}"} THEN [exc |-> "ValueError", out |-> Unset]
         ELSE IF ch = "{}" THEN [exc |-> "IndexError", out |-> Unset]
         ELSE IF ch \in UnknownFields THEN [exc |-> "KeyError", out |-> Unset]
         ELSE FormatFrom(template, i + 1, rules, prompt,
                  acc \o (CASE ch = "{rules}"  -> rules
                            [] ch = "{prompt}" -> prompt
                            [] ch = "{{"       -> "{"
                            [] ch = "}}"       -> "}"
                            [] OTHER           -> ch))
Format(template, rules, prompt) == FormatFrom(template, 1, rules, prompt, "")

\* the prompt_template arguments a judge is constructed with
CustomTemplates ==
    { << "Rules:\n", "{rules}", "\nJSON:" >>,
      << "Judge this:\n", "{prompt}" >>,
      << "Say OK." >>,
      << "{rules}", "\n", "{prompt}", "\nAnswer like ", "{{", "\"score\": 0.9", "}}" >>,
      << "{rules}", "\n", "{prompt}", "\nAnswer like ", "{\"score\": 0.9}" >>,
      << "Input: ", "{input}" >>,
      << "{prompt}", " {" >>,
      << "{}", "{prompt}" >> }
TemplateArgs == {PyNone, PyText(<<>>)} \cup {PyText(t) : t \in CustomTemplates}
\* a judge and its backend, as constructed: the library's templates with
\* every backend, the callers' templates with the library's adapters
Configurations ==
    (Judges \X Backends \X {PyNone, PyText(<<>>)})
    \cup (Judges \X Adapters \X TemplateArgs)


\* ------------------------------------------------------------------- state
VARIABLES
    cls,            \* class of the judge object
    backend,        \* self.llm_client
    prompt_template,\* self.prompt_template
    pc,             \* position of the judge call
    meta_prompt,    \* local of judge
    raw_output,     \* local of judge
    clean_output,   \* local of judge
    caught,         \* _extract_json answered from its except branch
    calls,          \* times the call has invoked llm_client.generate
    exc,            \* exception judge raised, "none" if it did not
    ret             \* value judge returned, Unset if it did not

\* Several callers inside judge of one judge object at the same time
VARIABLES
    judge_obj,      \* the shared object: its class and the fields of self
    frames          \* for each caller, the locals of its judge call

\* One DVCDataTracker running sync
VARIABLES
    entry,          \* the method called: sync or sync_data
    sync_pc,        \* position inside sync_data
    executed,       \* the steps run so far, in order, with their exit status
    printed,        \* what _run_command printed about failures and stderr
    git_status_result, \* stdout of `git status --porcelain`
    raised          \* the exception that left the method, if any

\* One DVCSetup running setup
VARIABLES
    setup_pc,       \* position inside setup
    dvc_initialized,\* the project has a .dvc directory
    endpoint_url,   \* s3_config.get("endpoint_url")
    bucket,         \* what the object store answers about the bucket
    setup_log,      \* the operations run so far, in order, with their result
    setup_raised    \* the exception that left setup, if any

\* YantraContext and the invocations of one yantra_task-wrapped function
VARIABLES
    ctx_tracker,    \* YantraContext._tracker
    task_pc,        \* position inside wrapper
    tracker,        \* local of wrapper: the tracker read at the invocation
    spans,          \* the spans opened so far, with what was set on them
    task_args,      \* the arguments of the running invocation, bound to their names
    func_result,    \* what func did in the running invocation
    task_log        \* the history: set_tracker calls, invocations, calls of func, ends

\* One EvidentlyJudgeAdapter answering _call_model
VARIABLES
    adapter_pc,     \* position inside _call_model
    adapter_rules,  \* self._rules, by its json.dumps(rules, indent=2) text
    model_calls,    \* the calls of _call_model made so far
    judge_calls,    \* the calls of self._judge.judge made so far: prompt and rules
    judge_result,   \* what the judge returned or raised in the running call
    call_out        \* what the last call of _call_model returned or raised

jvars == <<cls, backend, prompt_template, pc, meta_prompt, raw_output,
           clean_output, caught, calls, exc, ret>>
cvars == <<judge_obj, frames>>
svars == <<entry, sync_pc, executed, printed, git_status_result, raised>>
uvars == <<setup_pc, dvc_initialized, endpoint_url, bucket, setup_log, setup_raised>>
ovars == <<ctx_tracker, task_pc, tracker, spans, task_args, func_result, task_log>>
avars == <<adapter_pc, adapter_rules, model_calls, judge_calls, judge_result, call_out>>
xvars == <<uvars, ovars, avars>>
vars == <<jvars, cvars, svars, xvars>>

\* the part of the state a single judge call leaves alone
MaxCallers == 2
Callers == 1..MaxCallers
IdleFrame ==
    [pc |-> "idle", prompt |-> Unset, rules |-> Unset, meta_prompt |-> Unset,
     sent |-> Unset, raw_output |-> Unset, clean_output |-> Unset,
     exc |-> "none", ret |-> Unset]
NoException == [type |-> "none", code |-> 0, carries |-> <<>>]
NoCallers == frames = [c \in Callers |-> IdleFrame]
NoSync ==
    /\ entry = "sync_data"
    /\ sync_pc = "start"
    /\ executed = <<>>
    /\ printed = <<>>
    /\ git_status_result = Unset
    /\ raised = NoException
NoSetup ==
    /\ setup_pc = "start"
    /\ dvc_initialized = FALSE
    /\ endpoint_url = "None"
    /\ bucket = "exists"
    /\ setup_log = <<>>
    /\ setup_raised = NoException
\* no call of func has been made
NoOutcome == [kind |-> "none", value |-> Unset, exc |-> NoException]
NoTask ==
    /\ ctx_tracker = "None"
    /\ task_pc = "idle"
    /\ tracker = "None"
    /\ spans = <<>>
    /\ task_args = <<>>
    /\ func_result = NoOutcome
    /\ task_log = <<>>
NoAdapter ==
    /\ adapter_pc = "idle"
    /\ adapter_rules = "None"
    /\ model_calls = <<>>
    /\ judge_calls = <<>>
    /\ judge_result = [exc |-> "none", ret |-> Unset]
    /\ call_out = [exc |-> "none", ret |-> Unset]

\* __init__(llm_client, prompt_template=None)
Init ==
    /\ \E cfg \in Configurations :
           /\ cls = cfg[1]
           /\ backend = cfg[2]
           /\ prompt_template = IF Truthy(cfg[3]) THEN cfg[3].v
                                 ELSE DefaultTemplate(cls)
    /\ pc = "idle"
    /\ meta_prompt = Unset
    /\ raw_output = Unset
    /\ clean_output = Unset
    /\ caught = FALSE
    /\ calls = 0
    /\ exc = "none"
    /\ ret = Unset
    /\ judge_obj = [cls |-> cls, llm_client |-> backend,
                    prompt_template |-> prompt_template]
    /\ NoCallers
    /\ NoSync
    /\ NoSetup /\ NoTask /\ NoAdapter

\* judge(prompt, rules), step 1: build the prompt
Render ==
    /\ pc = "idle"
    /\ \E prompt \in Subjects, rules \in RulesDumps :
           LET f == Format(prompt_template, rules, prompt) IN
               /\ meta_prompt' = f.out
               /\ exc' = f.exc
               /\ pc' = IF f.exc = "none" THEN "rendered" ELSE "raised"
    /\ UNCHANGED <<cls, backend, prompt_template, raw_output, clean_output,
                   caught, calls, ret>>
    /\ UNCHANGED <<cvars, svars, xvars>>

\* step 2: raw_output = self.llm_client.generate(meta_prompt); an exception
\* of generate leaves judge at once
Generate ==
    /\ pc = "rendered"
    /\ \E g \in GenerateOutcomes(backend) :
           IF g.exc = "none"
           THEN /\ raw_output' = g.ret
                /\ pc' = "generated"
                /\ UNCHANGED exc
           ELSE /\ exc' = g.exc
                /\ pc' = "raised"
                /\ UNCHANGED raw_output
    /\ calls' = calls + 1
    /\ UNCHANGED <<cls, backend, prompt_template, meta_prompt, clean_output,
                   caught, ret>>
    /\ UNCHANGED <<cvars, svars, xvars>>

\* self._extract_json of the class of the judge
ExtractJson(c, text) ==
    IF c = "DefaultLlmJudge" THEN ExtractDefault(text) ELSE ExtractCustom(text)

\* step 3: clean_output = self._extract_json(raw_output)
Extract ==
    /\ pc = "generated"
    /\ LET x == ExtractJson(cls, raw_output) IN
           /\ clean_output' = x.out
           /\ caught' = x.caught
    /\ pc' = "extracted"
    /\ UNCHANGED <<cls, backend, prompt_template, meta_prompt, raw_output,
                   calls, exc, ret>>
    /\ UNCHANGED <<cvars, svars, xvars>>

\* Normalize with one retry: after a parse failure the call goes back to
\* generate once more.
NormalizeRetry ==
    /\ pc = "extracted"
    /\ LET n == IF cls = "DefaultLlmJudge"
                THEN NormalizeDefault(raw_output, clean_output)
                ELSE NormalizeCustom(raw_output, clean_output)
           retry == JsonLoads(clean_output).exc = "JSONDecodeError" /\ calls < 2 IN
           /\ exc' = IF retry THEN exc ELSE n.exc
           /\ ret' = IF retry THEN ret ELSE n.ret
           /\ pc' = IF retry THEN "rendered"
                    ELSE IF n.exc = "none" THEN "returned" ELSE "raised"
    /\ UNCHANGED <<cls, backend, prompt_template, meta_prompt, raw_output,
                   clean_output, caught, calls>>
    /\ UNCHANGED <<cvars, svars, xvars>>

\* step 4: json.loads and the normalisation of the class of the judge
Normalize ==
    /\ pc = "extracted"
    /\ LET n == IF cls = "DefaultLlmJudge"
                THEN NormalizeDefault(raw_output, clean_output)
                ELSE NormalizeCustom(raw_output, clean_output) IN
           /\ exc' = n.exc
           /\ ret' = n.ret
           /\ pc' = IF n.exc = "none" THEN "returned" ELSE "raised"
    /\ UNCHANGED <<cls, backend, prompt_template, meta_prompt, raw_output,
                   clean_output, caught, calls>>
    /\ UNCHANGED <<cvars, svars, xvars>>

Next == Render \/ Generate \/ Extract \/ Normalize

Spec == Init /\ [][Next]_vars

TypeOK ==
    /\ cls \in Judges
    /\ backend \in Backends
    /\ pc \in {"idle", "rendered", "generated", "extracted", "returned", "raised"}
    /\ exc \in {"none", "Timeout", "ConnectionError", "HTTPError",
                "JSONDecodeError", "AttributeError", "TypeError",
                "ValidationError", "ValueError", "IndexError", "KeyError"}
    /\ caught \in BOOLEAN
    /\ calls \in 0..1

\* ------------------------------------------------------ concurrent callers
\* Callers enter judge of the same object; each has its own locals and the
\* steps of different callers interleave freely.  The backend is stateless:
\* what generate answers does not depend on the other calls.
NoJudgeCall ==
    /\ cls = "DefaultLlmJudge"
    /\ backend = "stub"
    /\ prompt_template = DefaultTemplate(cls)
    /\ pc = "idle"
    /\ meta_prompt = Unset
    /\ raw_output = Unset
    /\ clean_output = Unset
    /\ caught = FALSE
    /\ calls = 0
    /\ exc = "none"
    /\ ret = Unset

ConcSubjects == {"subject text", "other text"}

InitConcurrent ==
    /\ \E c \in Judges, b \in Adapters :
           judge_obj = [cls |-> c, llm_client |-> b,
                        prompt_template |-> DefaultTemplate(c)]
    /\ NoCallers
    /\ NoJudgeCall
    /\ NoSync
    /\ NoSetup /\ NoTask /\ NoAdapter

\* CRender that keeps the rendered prompt on the object:
\* self.prompt_template = self.prompt_template.format(...)
CRenderStoring(c) ==
    /\ frames[c].pc = "idle"
    /\ \E prompt \in ConcSubjects, rules \in RulesDumps :
           LET f == Format(judge_obj.prompt_template, rules, prompt) IN
               /\ frames' = [frames EXCEPT ![c] =
                      [@ EXCEPT !.prompt = PyStr(prompt), !.rules = PyStr(rules),
                                !.meta_prompt = f.out, !.exc = f.exc,
                                !.pc = IF f.exc = "none" THEN "rendered" ELSE "raised"]]
               /\ judge_obj' = [judge_obj EXCEPT !.prompt_template = <<f.out.v>>]
    /\ UNCHANGED <<jvars, svars, xvars>>

\* caller c, step 1: meta_prompt = self.prompt_template.format(...)
CRender(c) ==
    /\ frames[c].pc = "idle"
    /\ \E prompt \in ConcSubjects, rules \in RulesDumps :
           LET f == Format(judge_obj.prompt_template, rules, prompt) IN
               frames' = [frames EXCEPT ![c] =
                   [@ EXCEPT !.prompt = PyStr(prompt), !.rules = PyStr(rules),
                             !.meta_prompt = f.out, !.exc = f.exc,
                             !.pc = IF f.exc = "none" THEN "rendered" ELSE "raised"]]
    /\ UNCHANGED <<judge_obj, jvars, svars, xvars>>

\* caller c, step 2: raw_output = self.llm_client.generate(meta_prompt)
CGenerate(c) ==
    /\ frames[c].pc = "rendered"
    /\ \E g \in GenerateOutcomes(judge_obj.llm_client) :
           frames' = [frames EXCEPT ![c] =
               IF g.exc = "none"
               THEN [@ EXCEPT !.sent = frames[c].meta_prompt, !.raw_output = g.ret,
                              !.pc = "generated"]
               ELSE [@ EXCEPT !.sent = frames[c].meta_prompt, !.exc = g.exc,
                              !.pc = "raised"]]
    /\ UNCHANGED <<judge_obj, jvars, svars, xvars>>

\* caller c, step 3: clean_output = self._extract_json(raw_output)
CExtract(c) ==
    /\ frames[c].pc = "generated"
    /\ frames' = [frames EXCEPT ![c] =
           [@ EXCEPT !.clean_output =
                         ExtractJson(judge_obj.cls, frames[c].raw_output).out,
                     !.pc = "extracted"]]
    /\ UNCHANGED <<judge_obj, jvars, svars, xvars>>

\* caller c, step 4: json.loads and the normalisation
CNormalize(c) ==
    /\ frames[c].pc = "extracted"
    /\ LET fr == frames[c]
           n == IF judge_obj.cls = "DefaultLlmJudge"
                THEN NormalizeDefault(fr.raw_output, fr.clean_output)
                ELSE NormalizeCustom(fr.raw_output, fr.clean_output) IN
           frames' = [frames EXCEPT ![c] =
               [@ EXCEPT !.exc = n.exc, !.ret = n.ret,
                         !.pc = IF n.exc = "none" THEN "returned" ELSE "raised"]]
    /\ UNCHANGED <<judge_obj, jvars, svars, xvars>>

NextConcurrent ==
    \E c \in Callers : CRender(c) \/ CGenerate(c) \/ CExtract(c) \/ CNormalize(c)

SpecConcurrent == InitConcurrent /\ [][NextConcurrent]_vars

\* ----------------------------------------------------------- DVCDataTracker
\* A child process as subprocess.run meets it: it runs and exits with a
\* return code, or the executable cannot be started at all.
Stderrs == {"", "WARNING: cache is missing", "Everything is up to date.",
            "2 files fetched"}
Quiet == {"WARNING: cache is missing", "Everything is up to date."}
               \* stderr texts with "WARNING" or "Everything is up to date"
StatusOutputs == {"", " M data/input.dvc\n", "?? notes.txt\n",
                  "?? .dvcignore\n", " M data/input.dvc\n M data/output.dvc\n"}
MentionsDvc == StatusOutputs \ {"", "?? notes.txt\n"}    \* ".dvc" in stdout

input_dir  == "data/input"
output_dir == "data/output"
final_commit_message == "Update data (2026-01-01 00:00:00)"
DvcPull   == <<"dvc", "pull">>
DvcAddIn  == <<"dvc", "add", input_dir>>
DvcAddOut == <<"dvc", "add", output_dir>>
GitStatusCmd == <<"git", "status", "--porcelain">>
GitAddCmd == <<"git", "add", ".gitignore", input_dir \o ".dvc", output_dir \o ".dvc">>
GitCommitCmd == <<"git", "commit", "-m", final_commit_message>>
DvcPush   == <<"dvc", "push">>

ProcOutcomes(command) ==
    {[kind |-> "exit", returncode |-> 0, stderr |-> e, stdout |-> o] :
         e \in Stderrs,
         o \in IF command = GitStatusCmd THEN StatusOutputs ELSE {""}}
    \cup {[kind |-> "exit", returncode |-> 1, stderr |-> "fatal: failed", stdout |-> ""],
          [kind |-> "missing", returncode |-> 0, stderr |-> "", stdout |-> ""]}

\* exit(code): SystemExit with the exit status and nothing else.
\* `carries` lists what an exception object holds besides its type.
SystemExit(code) == [type |-> "SystemExit", code |-> code, carries |-> <<>>]
FileNotFoundError(command) ==
    [type |-> "FileNotFoundError", code |-> 0,
     carries |-> << [what |-> "filename", value |-> <<command[1]>>] >>]

\* _run_command with the CalledProcessError handler left out of account:
\* a failed command hands back its result like a successful one.
RunCommandUnchecked(command, check, p) ==
    IF p.kind = "missing"
    THEN [exc |-> FileNotFoundError(command), result |-> Unset, prints |-> <<>>]
    ELSE [exc |-> NoException, result |-> p, prints |-> <<>>]

\* DVCDataTracker._run_command(command, check) on the child process p:
\* [exc, result, prints].  With check, a non-zero return code makes
\* subprocess.run raise CalledProcessError, which is answered by printing
\* the command and both output streams and calling exit(1); an executable
\* that cannot be started raises FileNotFoundError, which is not handled.
RunCommand(command, check, p) ==
    IF p.kind = "missing"
    THEN [exc |-> FileNotFoundError(command), result |-> Unset, prints |-> <<>>]
    ELSE IF check /\ p.returncode # 0
    THEN [exc |-> SystemExit(1), result |-> Unset,
          prints |-> << [kind |-> "failed", command |-> command,
                         stderr |-> p.stderr, stdout |-> p.stdout] >>]
    ELSE [exc |-> NoException, result |-> p,
          prints |-> IF p.stderr # "" /\ check /\ p.stderr \notin Quiet
                     THEN << [kind |-> "info", command |-> command,
                              stderr |-> p.stderr, stdout |-> ""] >>
                     ELSE <<>>]

InitSync ==
    /\ entry \in {"sync", "sync_data"}
    /\ sync_pc = "start"
    /\ executed = <<>>
    /\ printed = <<>>
    /\ git_status_result = Unset
    /\ raised = NoException
    /\ NoJudgeCall
    /\ judge_obj = [cls |-> cls, llm_client |-> backend,
                    prompt_template |-> prompt_template]
    /\ NoCallers
    /\ NoSetup /\ NoTask /\ NoAdapter

\* the entry of the log for the step `name` that ran `command` as process p
Ran(name, command, p) ==
    [step |-> name, command |-> command,
     started |-> p.kind = "exit",
     ok |-> p.kind = "exit" /\ p.returncode = 0,
     stderr |-> IF p.kind = "exit" /\ p.returncode # 0 THEN p.stderr ELSE ""]

\* self.pull()
Pull ==
    /\ sync_pc = "start"
    /\ \E p \in ProcOutcomes(DvcPull) :
           LET r == RunCommand(DvcPull, TRUE, p) IN
               /\ executed' = Append(executed, Ran("pull", DvcPull, p))
               /\ printed' = printed \o r.prints
               /\ raised' = r.exc
               /\ sync_pc' = IF r.exc = NoException THEN "pulled" ELSE "exited"
    /\ UNCHANGED <<entry, git_status_result, jvars, cvars, xvars>>

\* self._run_validations(): prints only
RunValidations ==
    /\ sync_pc = "pulled"
    /\ executed' = Append(executed,
           [step |-> "validate", command |-> <<>>, started |-> TRUE,
            ok |-> TRUE, stderr |-> ""])
    /\ sync_pc' = "validated"
    /\ UNCHANGED <<entry, printed, git_status_result, raised, jvars, cvars, xvars>>

\* self.track(), first command: dvc add of the input directory
TrackInput ==
    /\ sync_pc = "validated"
    /\ \E p \in ProcOutcomes(DvcAddIn) :
           LET r == RunCommand(DvcAddIn, TRUE, p) IN
               /\ executed' = Append(executed, Ran("add_input", DvcAddIn, p))
               /\ printed' = printed \o r.prints
               /\ raised' = r.exc
               /\ sync_pc' = IF r.exc = NoException THEN "input_tracked" ELSE "exited"
    /\ UNCHANGED <<entry, git_status_result, jvars, cvars, xvars>>

\* self.track(), second command: dvc add of the output directory
TrackOutput ==
    /\ sync_pc = "input_tracked"
    /\ \E p \in ProcOutcomes(DvcAddOut) :
           LET r == RunCommand(DvcAddOut, TRUE, p) IN
               /\ executed' = Append(executed, Ran("add_output", DvcAddOut, p))
               /\ printed' = printed \o r.prints
               /\ raised' = r.exc
               /\ sync_pc' = IF r.exc = NoException THEN "tracked" ELSE "exited"
    /\ UNCHANGED <<entry, git_status_result, jvars, cvars, xvars>>

\* git status --porcelain, and the return when ".dvc" is not in its stdout
GitStatus ==
    /\ sync_pc = "tracked"
    /\ \E p \in ProcOutcomes(GitStatusCmd) :
           LET r == RunCommand(GitStatusCmd, TRUE, p) IN
               /\ executed' = Append(executed, Ran("status", GitStatusCmd, p))
               /\ printed' = printed \o r.prints
               /\ raised' = r.exc
               /\ git_status_result' =
                      IF r.exc = NoException THEN PyStr(r.result.stdout) ELSE Unset
               /\ sync_pc' = IF r.exc # NoException THEN "exited"
                             ELSE IF r.result.stdout \notin MentionsDvc THEN "done"
                             ELSE "changed"
    /\ UNCHANGED <<entry, jvars, cvars, xvars>>

\* git add of .gitignore and the two .dvc files
GitAdd ==
    /\ sync_pc = "changed"
    /\ \E p \in ProcOutcomes(GitAddCmd) :
           LET r == RunCommand(GitAddCmd, TRUE, p) IN
               /\ executed' = Append(executed, Ran("git_add", GitAddCmd, p))
               /\ printed' = printed \o r.prints
               /\ raised' = r.exc
               /\ sync_pc' = IF r.exc = NoException THEN "staged" ELSE "exited"
    /\ UNCHANGED <<entry, git_status_result, jvars, cvars, xvars>>

\* git commit -m final_commit_message
GitCommit ==
    /\ sync_pc = "staged"
    /\ \E p \in ProcOutcomes(GitCommitCmd) :
           LET r == RunCommand(GitCommitCmd, TRUE, p) IN
               /\ executed' = Append(executed, Ran("commit", GitCommitCmd, p))
               /\ printed' = printed \o r.prints
               /\ raised' = r.exc
               /\ sync_pc' = IF r.exc = NoException THEN "committed" ELSE "exited"
    /\ UNCHANGED <<entry, git_status_result, jvars, cvars, xvars>>

\* self.push()
Push ==
    /\ sync_pc = "committed"
    /\ \E p \in ProcOutcomes(DvcPush) :
           LET r == RunCommand(DvcPush, TRUE, p) IN
               /\ executed' = Append(executed, Ran("push", DvcPush, p))
               /\ printed' = printed \o r.prints
               /\ raised' = r.exc
               /\ sync_pc' = IF r.exc = NoException THEN "done" ELSE "exited"
    /\ UNCHANGED <<entry, git_status_result, jvars, cvars, xvars>>

NextSync ==
    \/ Pull \/ RunValidations \/ TrackInput \/ TrackOutput
    \/ GitStatus \/ GitAdd \/ GitCommit \/ Push

SpecSync == InitSync /\ [][NextSync]_vars

\* ----------------------------------------------------------------- DVCSetup
\* An entry of setup_log: the operation, the command it ran (if any), the
\* error code the object store answered (if any), and whether it succeeded.
Op(op, command, code, ok) == [op |-> op, command |-> command, code |-> code, ok |-> ok]

\* the child processes a setup command can meet
SetupProcs ==
    {[kind |-> "exit", returncode |-> 0, stderr |-> "", stdout |-> ""],
     [kind |-> "exit", returncode |-> 1, stderr |-> "fatal: failed", stdout |-> ""],
     [kind |-> "missing", returncode |-> 0, stderr |-> "", stdout |-> ""]}

\* DVCSetup._run_command(command, check) on the child process p: with check
\* a non-zero return code ends in exit(1), without it the result is handed
\* back whatever the return code; an executable that cannot be started
\* raises FileNotFoundError, which is not handled.
SetupRunCommand(command, check, p) ==
    IF p.kind = "missing" THEN FileNotFoundError(command)
    ELSE IF check /\ p.returncode # 0 THEN SystemExit(1)
    ELSE NoException

\* the commands of _configure_dvc, in order, each with its check flag
ConfigureCommands(has_dvc, endpoint) ==
    (IF has_dvc THEN <<>> ELSE << [command |-> <<"dvc", "init">>, check |-> TRUE] >>)
    \o << [command |-> <<"dvc", "remote", "add", "-d", "s3_storage",
                         "s3://bucket/dvc_store", "--force">>, check |-> TRUE] >>
    \o (IF endpoint # "None"
        THEN << [command |-> <<"dvc", "remote", "modify", "s3_storage",
                               "endpointurl", endpoint>>, check |-> TRUE] >>
        ELSE <<>>)
    \o << [command |-> <<"dvc", "remote", "modify", "s3_storage", "use_ssl", "false">>,
           check |-> TRUE],
          [command |-> <<"dvc", "remote", "modify", "--local", "s3_storage",
                         "access_key_id", "KEY">>, check |-> TRUE],
          [command |-> <<"dvc", "remote", "modify", "--local", "s3_storage",
                         "secret_access_key", "SECRET">>, check |-> TRUE] >>

\* the commands of _bootstrap_data, in order, each with its check flag
BootstrapCommands ==
    << [command |-> DvcPull, check |-> FALSE],
       [command |-> DvcAddIn, check |-> TRUE],
       [command |-> DvcAddOut, check |-> TRUE],
       [command |-> GitAddCmd, check |-> TRUE],
       [command |-> <<"git", "commit", "-m", "chore: Initial DVC setup">>, check |-> FALSE],
       [command |-> DvcPush, check |-> TRUE] >>

\* running cmds[i..] one after the other on the processes procs[i..]:
\* [exc, log]; the first exception ends the run
RECURSIVE RunAll(_, _, _, _)
RunAll(cmds, procs, i, log) ==
    IF i > Len(cmds) THEN [exc |-> NoException, log |-> log]
    ELSE LET e == SetupRunCommand(cmds[i].command, cmds[i].check, procs[i])
             l == Append(log, Op("run", cmds[i].command, "",
                                 procs[i].kind = "exit" /\ procs[i].returncode = 0))
         IN  IF e # NoException THEN [exc |-> e, log |-> l]
             ELSE RunAll(cmds, procs, i + 1, l)

\* BucketCheck that creates the bucket after any ClientError of head_bucket
BucketCheckAnyError(b, created) ==
    CASE b = "no_config" -> [exc |-> [type |-> "TypeError", code |-> 0, carries |-> <<>>],
                             log |-> <<>>]
      [] b = "exists" -> [exc |-> NoException,
                          log |-> << Op("head_bucket", <<>>, "200", TRUE) >>]
      [] b = "unreachable" -> [exc |-> SystemExit(1),
                               log |-> << Op("head_bucket", <<>>, "", FALSE) >>]
      [] b \in {"missing", "forbidden"} ->
             [exc |-> IF created THEN NoException ELSE SystemExit(1),
              log |-> << Op("head_bucket", <<>>,
                            IF b = "missing" THEN "404" ELSE "403", FALSE),
                         Op("create_bucket", <<>>, "", created) >>]

\* DVCSetup._ensure_bucket_exists on a bucket in state b, when create_bucket
\* would succeed or not: [exc, log].
\*   self.s3_config["bucket_name"] on a missing section raises TypeError;
\*   head_bucket succeeds on an existing bucket;
\*   ClientError 404: create_bucket, and exit(1) when that fails;
\*   any other ClientError, any other exception: exit(1).
BucketCheck(b, created) ==
    CASE b = "no_config" -> [exc |-> [type |-> "TypeError", code |-> 0, carries |-> <<>>],
                             log |-> <<>>]
      [] b = "exists" -> [exc |-> NoException,
                          log |-> << Op("head_bucket", <<>>, "200", TRUE) >>]
      [] b = "forbidden" -> [exc |-> SystemExit(1),
                             log |-> << Op("head_bucket", <<>>, "403", FALSE) >>]
      [] b = "unreachable" -> [exc |-> SystemExit(1),
                               log |-> << Op("head_bucket", <<>>, "", FALSE) >>]
      [] b = "missing" ->
             [exc |-> IF created THEN NoException ELSE SystemExit(1),
              log |-> << Op("head_bucket", <<>>, "404", FALSE),
                         Op("create_bucket", <<>>, "", created) >>]

InitSetup ==
    /\ setup_pc = "start"
    /\ dvc_initialized \in BOOLEAN
    /\ endpoint_url \in {"None", "http://localhost:9000"}
    \* what the object store answers about the bucket; "no_config" is a
    \* configuration file without an s3_config section
    /\ bucket \in {"exists", "missing", "forbidden", "unreachable", "no_config"}
    /\ setup_log = <<>>
    /\ setup_raised = NoException
    /\ NoJudgeCall
    /\ judge_obj = [cls |-> cls, llm_client |-> backend,
                    prompt_template |-> prompt_template]
    /\ NoCallers
    /\ NoSync
    /\ NoTask
    /\ NoAdapter

\* self._create_directories(): mkdir of both directories
CreateDirectories ==
    /\ setup_pc = "start"
    /\ \E ok \in BOOLEAN :
           /\ setup_log' = Append(setup_log, Op("mkdir", <<>>, "", ok))
           /\ setup_raised' = IF ok THEN NoException
                              ELSE [type |-> "PermissionError", code |-> 0, carries |-> <<>>]
           /\ setup_pc' = IF ok THEN "directories" ELSE "exited"
    /\ UNCHANGED <<dvc_initialized, endpoint_url, bucket, jvars, cvars, svars, ovars, avars>>

\* self._ensure_bucket_exists()
EnsureBucketExists ==
    /\ setup_pc = "directories"
    /\ \E created \in BOOLEAN :
           LET r == BucketCheck(bucket, created) IN
               /\ setup_log' = setup_log \o r.log
               /\ setup_raised' = r.exc
               /\ setup_pc' = IF r.exc = NoException THEN "bucket" ELSE "exited"
    /\ UNCHANGED <<dvc_initialized, endpoint_url, bucket, jvars, cvars, svars, ovars, avars>>

\* self._configure_dvc()
ConfigureDvc ==
    /\ setup_pc = "bucket"
    /\ LET cmds == ConfigureCommands(dvc_initialized, endpoint_url) IN
       \E procs \in [1..Len(cmds) -> SetupProcs] :
           LET r == RunAll(cmds, procs, 1, setup_log) IN
               /\ setup_log' = r.log
               /\ setup_raised' = r.exc
               /\ setup_pc' = IF r.exc = NoException THEN "configured" ELSE "exited"
    /\ UNCHANGED <<dvc_initialized, endpoint_url, bucket, jvars, cvars, svars, ovars, avars>>

\* self._bootstrap_data()
BootstrapData ==
    /\ setup_pc = "configured"
    /\ \E procs \in [1..Len(BootstrapCommands) -> SetupProcs] :
           LET r == RunAll(BootstrapCommands, procs, 1, setup_log) IN
               /\ setup_log' = r.log
               /\ setup_raised' = r.exc
               /\ setup_pc' = IF r.exc = NoException THEN "done" ELSE "exited"
    /\ UNCHANGED <<dvc_initialized, endpoint_url, bucket, jvars, cvars, svars, ovars, avars>>

NextSetup == CreateDirectories \/ EnsureBucketExists \/ ConfigureDvc \/ BootstrapData

SpecSetup == InitSetup /\ [][NextSetup]_vars

\* ------------------------------------------------ yantra_task, YantraContext
MaxTasks == 2   \* invocations of the wrapped function
MaxSets == 2    \* calls of YantraContext.set_tracker

Trackers == {"tracker_a", "tracker_b"}

\* the positional arguments of an invocation, bound to the parameter names
TaskArgs == {<<>>, << [k |-> "x", v |-> PyStr("a")] >>}

FuncReturned(x) == [kind |-> "returned", value |-> x, exc |-> NoException]
FuncRaised(e) == [kind |-> "raised", value |-> Unset, exc |-> e]
ValueError(msg) ==
    [type |-> "ValueError", code |-> 0,
     carries |-> << [what |-> "message", value |-> <<msg>>] >>]

\* what the wrapped function can do: return a value, raise an Exception,
\* or leave by exit(1) as the DVC classes of this package do
FuncOutcomes ==
    {FuncReturned(PyStr("a")), FuncReturned(PyNone), FuncReturned(PyNum("7")),
     FuncRaised(ValueError("bad input")), FuncRaised(SystemExit(1))}

\* the exceptions the clause "except Exception" catches
IsException(e) == e.type \notin {"none", "SystemExit", "KeyboardInterrupt", "GeneratorExit"}

\* str(x) of a str, None or number; all shorter than the 1000 characters kept
Str(x) == x.v
\* str(e) of an exception: its message
StrExc(e) == IF e.carries = <<>> THEN "" ELSE e.carries[1].value[1]

Event(ev, n, t, o) == [ev |-> ev, invocation |-> n, tracker |-> t, outcome |-> o]
Events(ev) == {i \in 1..Len(task_log) : task_log[i].ev = ev}

\* YantraContext.get_tracker() as if the tracker had been read once, when the
\* function was decorated
GetTrackerAtDecoration == "None"

\* YantraContext.get_tracker()
GetTracker == ctx_tracker

\* the body of the with statement after func has returned or raised:
\* outputs and status = success on a return; status = error and
\* error.message on an Exception; nothing on any other BaseException
SpanRecord(span, o) ==
    IF o.kind = "returned"
    THEN [span EXCEPT !.outputs = << [k |-> "result", v |-> Str(o.value)] >>,
                      !.attributes = Append(@, [k |-> "status", v |-> "success"])]
    ELSE IF IsException(o.exc)
    THEN [span EXCEPT !.attributes =
              @ \o << [k |-> "status", v |-> "error"],
                      [k |-> "error.message", v |-> StrExc(o.exc)] >>]
    ELSE span

InitTask ==
    /\ NoTask
    /\ NoJudgeCall
    /\ judge_obj = [cls |-> cls, llm_client |-> backend,
                    prompt_template |-> prompt_template]
    /\ NoCallers
    /\ NoSync
    /\ NoSetup
    /\ NoAdapter

\* YantraContext.set_tracker(t), at any moment
SetTracker ==
    /\ Cardinality(Events("set_tracker")) < MaxSets
    /\ \E t \in Trackers :
           /\ ctx_tracker' = t
           /\ task_log' = Append(task_log, Event("set_tracker", 0, t, NoOutcome))
    /\ UNCHANGED <<task_pc, tracker, spans, task_args, func_result,
                   jvars, cvars, svars, uvars, avars>>

\* wrapper is entered: the tracker is read and the arguments are bound
Invoke ==
    /\ task_pc = "idle"
    /\ Cardinality(Events("invoke")) < MaxTasks
    /\ \E a \in TaskArgs :
           /\ tracker' = GetTracker
           /\ task_args' = a
           /\ task_log' = Append(task_log,
                  Event("invoke", Cardinality(Events("invoke")) + 1, GetTracker, NoOutcome))
    /\ task_pc' = "read"
    /\ UNCHANGED <<ctx_tracker, spans, func_result, jvars, cvars, svars, uvars, avars>>

\* if not tracker: return func(*args, **kwargs)
RunUntraced ==
    /\ task_pc = "read"
    /\ tracker = "None"
    /\ \E o \in FuncOutcomes :
           LET n == Cardinality(Events("invoke")) IN
           task_log' = task_log \o << Event("call", n, tracker, o),
                                      Event("end", n, tracker, o) >>
    /\ task_pc' = "idle"
    /\ task_args' = <<>>
    /\ UNCHANGED <<ctx_tracker, tracker, spans, func_result,
                   jvars, cvars, svars, uvars, avars>>

\* with tracker.start_span(name=task_name, inputs=inputs) as span:
OpenSpan ==
    /\ task_pc = "read"
    /\ tracker # "None"
    /\ spans' = Append(spans, [tracker |-> tracker,
                               invocation |-> Cardinality(Events("invoke")),
                               inputs |-> task_args,
                               outputs |-> <<>>,
                               attributes |-> <<>>,
                               ended |-> FALSE])
    /\ task_pc' = "in_span"
    /\ UNCHANGED <<ctx_tracker, tracker, task_args, func_result, task_log,
                   jvars, cvars, svars, uvars, avars>>

\* result = func(*args, **kwargs)
CallFunc ==
    /\ task_pc = "in_span"
    /\ \E o \in FuncOutcomes :
           /\ func_result' = o
           /\ task_log' = Append(task_log,
                  Event("call", Cardinality(Events("invoke")), tracker, o))
    /\ task_pc' = "called"
    /\ UNCHANGED <<ctx_tracker, tracker, spans, task_args,
                   jvars, cvars, svars, uvars, avars>>

\* span.set_outputs / span.set_attribute, in the try or in the except clause
Record ==
    /\ task_pc = "called"
    /\ spans' = [spans EXCEPT ![Len(spans)] = SpanRecord(spans[Len(spans)], func_result)]
    /\ task_pc' = "recorded"
    /\ UNCHANGED <<ctx_tracker, tracker, task_args, func_result, task_log,
                   jvars, cvars, svars, uvars, avars>>

\* return result / raise e: the with statement is left and the span ends
LeaveSpan ==
    /\ task_pc = "recorded"
    /\ spans' = [spans EXCEPT ![Len(spans)].ended = TRUE]
    /\ task_log' = Append(task_log,
           Event("end", Cardinality(Events("invoke")), tracker, func_result))
    /\ task_pc' = "idle"
    /\ tracker' = "None"
    /\ task_args' = <<>>
    /\ func_result' = NoOutcome
    /\ UNCHANGED <<ctx_tracker, jvars, cvars, svars, uvars, avars>>

NextTask ==
    SetTracker \/ Invoke \/ RunUntraced \/ OpenSpan \/ CallFunc \/ Record \/ LeaveSpan

SpecTask == InitTask /\ [][NextTask]_vars

\* ---------------------------------------------------- EvidentlyJudgeAdapter
MaxModelCalls == 2   \* calls of _call_model on one adapter

\* self._judge.judge(prompt, rules) for the judge of class c over backend b
\* with template tpl: what the call can return or raise
JudgeOutcomes(c, b, tpl, prompt, rules) ==
    LET f == Format(tpl, rules, prompt) IN
    IF f.exc # "none" THEN {Raised(f.exc)}
    ELSE {IF g.exc # "none" THEN Raised(g.exc)
          ELSE LET clean == ExtractJson(c, g.ret).out IN
               IF c = "DefaultLlmJudge" THEN NormalizeDefault(g.ret, clean)
               ELSE NormalizeCustom(g.ret, clean)
          : g \in GenerateOutcomes(b)}

\* the characters of a str as they stand inside a JSON string literal:
\* double quotes and newlines escaped
RECURSIVE Escaped(_)
Escaped(s) ==
    IF s = <<>> THEN ""
    ELSE (CASE IsStrLit(s[1]) -> "\\\"" \o StrOf(s[1]) \o "\\\""
            [] s[1] = "\n"    -> "\\n"
            [] OTHER          -> s[1]) \o Escaped(Tail(s))

\* json.dumps(x) with the default separators: [ok, s]; a value that is not
\* None, bool, number, str, list or dict (bytes) is a TypeError
RECURSIVE Dumps(_), DumpsMembers(_, _, _), DumpsElems(_, _, _)
Dumps(x) ==
    CASE x.t = "null" -> [ok |-> TRUE, s |-> <<"null">>]
      [] x.t \in {"num", "bool"} -> [ok |-> TRUE, s |-> <<x.v>>]
      [] x.t = "str"  -> [ok |-> TRUE, s |-> <<Q(x.v)>>]
      [] x.t = "text" -> [ok |-> TRUE, s |-> <<Q(Escaped(x.v))>>]
      [] x.t = "list" -> DumpsElems(x.v, 1, <<"[">>)
      [] x.t = "dict" -> DumpsMembers(x.v, 1, <<"{">>)
      [] OTHER -> [ok |-> FALSE, s |-> <<>>]
DumpsElems(xs, i, acc) ==
    IF i > Len(xs) THEN [ok |-> TRUE, s |-> Append(acc, "]")]
    ELSE LET d == Dumps(xs[i]) IN
         IF ~d.ok THEN [ok |-> FALSE, s |-> <<>>]
         ELSE DumpsElems(xs, i + 1,
                  (IF i > 1 THEN acc \o <<",", " ">> ELSE acc) \o d.s)
DumpsMembers(ps, i, acc) ==
    IF i > Len(ps) THEN [ok |-> TRUE, s |-> Append(acc, "}")]
    ELSE LET d == Dumps(ps[i].v) IN
         IF ~d.ok THEN [ok |-> FALSE, s |-> <<>>]
         ELSE DumpsMembers(ps, i + 1,
                  (IF i > 1 THEN acc \o <<",", " ">> ELSE acc)
                  \o <<Q(ps[i].k), ":", " ">> \o d.s)

\* json.dumps(x): [exc, ret]
JsonDumps(x) ==
    LET d == Dumps(x) IN
    IF d.ok THEN [exc |-> "none", ret |-> PyText(d.s)] ELSE Raised("TypeError")

\* {"score": 0.0, "explanation": f"Evaluation failed: {str(e)}"}; the name of
\* an exception stands for its message
Fallback(e) ==
    PyDict(<< [k |-> "score", v |-> PyNum("0.0")],
              [k |-> "explanation", v |-> PyStr("Evaluation failed: " \o e)] >>)

\* _call_model without its try statement
CallModelUnguarded(o) ==
    IF o.exc = "none" THEN JsonDumps(o.ret) ELSE o

\* _call_model once the judge has returned or raised o: [exc, ret]; "except
\* Exception" does not catch SystemExit, KeyboardInterrupt and GeneratorExit
CallModel(o) ==
    LET d == IF o.exc = "none" THEN JsonDumps(o.ret) ELSE o IN
    IF d.exc = "none" \/ d.exc \in {"SystemExit", "KeyboardInterrupt", "GeneratorExit"} THEN d
    ELSE JsonDumps(Fallback(d.exc))

InitAdapter ==
    /\ \E cfg \in Configurations :
           /\ cls = cfg[1]
           /\ backend = cfg[2]
           /\ prompt_template = IF Truthy(cfg[3]) THEN cfg[3].v
                                 ELSE DefaultTemplate(cls)
    /\ pc = "idle"
    /\ meta_prompt = Unset
    /\ raw_output = Unset
    /\ clean_output = Unset
    /\ caught = FALSE
    /\ calls = 0
    /\ exc = "none"
    /\ ret = Unset
    /\ judge_obj = [cls |-> cls, llm_client |-> backend,
                    prompt_template |-> prompt_template]
    /\ adapter_pc = "idle"
    /\ adapter_rules \in RulesDumps \cup {"{}"}
    /\ model_calls = <<>>
    /\ judge_calls = <<>>
    /\ judge_result = [exc |-> "none", ret |-> Unset]
    /\ call_out = [exc |-> "none", ret |-> Unset]
    /\ NoCallers
    /\ NoSync
    /\ NoSetup
    /\ NoTask

\* _call_model(prompt) up to the end of self._judge.judge(prompt, self._rules)
CallJudge ==
    /\ adapter_pc = "idle"
    /\ Len(model_calls) < MaxModelCalls
    /\ \E prompt \in Subjects :
           /\ model_calls' = Append(model_calls, prompt)
           /\ judge_calls' = Append(judge_calls, [prompt |-> prompt, rules |-> adapter_rules])
           /\ judge_result' \in JudgeOutcomes(cls, backend, prompt_template,
                                              prompt, adapter_rules)
    /\ adapter_pc' = "judged"
    /\ UNCHANGED <<adapter_rules, call_out, jvars, cvars, svars, uvars, ovars>>

\* return json.dumps(result), or the fallback of the except clause
Answer ==
    /\ adapter_pc = "judged"
    /\ call_out' = CallModel(judge_result)
    /\ adapter_pc' = "answered"
    /\ UNCHANGED <<adapter_rules, model_calls, judge_calls, judge_result,
                   jvars, cvars, svars, uvars, ovars>>

\* the call is over: its caller has the answer and its locals are gone
Return ==
    /\ adapter_pc = "answered"
    /\ adapter_pc' = "idle"
    /\ judge_result' = [exc |-> "none", ret |-> Unset]
    /\ call_out' = [exc |-> "none", ret |-> Unset]
    /\ UNCHANGED <<adapter_rules, model_calls, judge_calls,
                   jvars, cvars, svars, uvars, ovars>>

NextAdapter == CallJudge \/ Answer \/ Return

SpecAdapter == InitAdapter /\ [][NextAdapter]_vars

\* =================================================================== claims
ProviderErrors == {"Timeout", "ConnectionError", "HTTPError"}
Extracted == pc \in {"extracted", "returned", "raised"} /\ clean_output # Unset
Custom  == cls = "CustomMetricLlmJudge"
Default == cls = "DefaultLlmJudge"

\* C1: whenever the backend's generate returned a string, judge does not
\* raise, and what it returns is a record.
C1_JudgeNeverRaisesOnString ==
    raw_output.t = "text" =>
        /\ pc # "raised"
        /\ pc = "returned" => ret.t = "dict"

\* C2: a failure of the backend invocation (generate raises a provider
\* error) is not propagated by judge, which returns a record with a zero
\* score instead.
C2_BackendFailureYieldsRecord ==
    ~(pc = "raised" /\ exc \in ProviderErrors)

\* what json.loads makes of the extracted text in the current state
Parsed == JsonLoads(clean_output)
StrOutput == raw_output.t = "text"     \* generate returned a str
Normalized == StrOutput /\ Extracted /\ pc # "extracted"
ParseFailed == Normalized /\ Parsed.exc = "JSONDecodeError"
ParsedObject == Normalized /\ Parsed.exc = "none" /\ Parsed.val.t = "dict"
RetKeys == DictKeys(ret.v)
RetIs(keys) == pc = "returned" /\ ret.t = "dict" /\ RetKeys = keys

\* C3 (as claimed): a parse failure yields exactly
\* {"error": "parse_failed", "raw_output": <extracted text>}.
C3_ParseFailedRecord ==
    ParseFailed =>
        /\ RetIs({"error", "raw_output"})
        /\ DictGet(ret.v, "error") = PyStr("parse_failed")
        /\ DictGet(ret.v, "raw_output") = clean_output

\* C3 (amended): a parse failure never raises and yields exactly
\* {"error": "Failed to parse Judge output", "raw_output": <raw backend
\* output>} in flatten mode and {"score": 0.0, "explanation": "Failed to
\* parse Judge output.", "raw": <raw backend output>} in simple mode.
C3_ParseFailureRecordOfCode ==
    ParseFailed =>
        /\ Custom =>
              /\ RetIs({"error", "raw_output"})
              /\ DictGet(ret.v, "error") = PyStr("Failed to parse Judge output")
              /\ DictGet(ret.v, "raw_output") = raw_output
        /\ Default =>
              /\ RetIs({"score", "explanation", "raw"})
              /\ DictGet(ret.v, "score") = PyNum("0.0")
              /\ DictGet(ret.v, "explanation") = PyStr("Failed to parse Judge output.")
              /\ DictGet(ret.v, "raw") = raw_output

\* C3 witness: flatten mode answered a parse failure on an extracted text
\* that differs from the raw output.
C3_Witness ==
    ParseFailed /\ Custom /\ pc = "returned" /\ clean_output # raw_output

\* C4: every record judge returns is non-empty and carries an `error`
\* field or at least one evaluation field (a field other than the carriers
\* of the raw text).
RawCarriers == {"raw_llm_json", "raw", "raw_output"}
C4_RecordNeverBare ==
    (StrOutput /\ pc = "returned") =>
        /\ ret.v # <<>>
        /\ "error" \in RetKeys \/ RetKeys \ (RawCarriers \cup {"error"}) # {}

\* C5: in flatten mode every value of the record returned for a parsed
\* output is a scalar or a string; no object or list survives.
C5_FlatRecordIsSingleLevel ==
    (Custom /\ Normalized /\ pc = "returned" /\ Parsed.exc = "none") =>
        \A i \in 1..Len(ret.v) :
            ret.v[i].v.t \in {"str", "text", "num", "bool", "null"}

\* the evaluation list of the parsed object, and its items
HasEvalList ==
    /\ ParsedObject
    /\ "evaluation" \in DictKeys(Parsed.val.v)
    /\ DictGet(Parsed.val.v, "evaluation").t = "list"
EvalItems == DictGet(Parsed.val.v, "evaluation").v
NameOf(it) == DictGet(it.v, "metricName")
Named(it) ==
    /\ it.t = "dict"
    /\ "metricName" \in DictKeys(it.v)
    /\ NameOf(it).t = "str"
    /\ NameOf(it).v # ""
Complete(it) == Named(it) /\ {"score", "rationale"} \subseteq DictKeys(it.v)
Emitted(it) ==
    /\ NameOf(it).v \o "_score" \in RetKeys
    /\ NameOf(it).v \o "_rationale" \in RetKeys
    /\ DictGet(ret.v, NameOf(it).v \o "_score") = DictGet(it.v, "score")
    /\ DictGet(ret.v, NameOf(it).v \o "_rationale") = DictGet(it.v, "rationale")
LastOfName(i) ==
    \A j \in (i+1)..Len(EvalItems) :
        Named(EvalItems[j]) => NameOf(EvalItems[j]) # NameOf(EvalItems[i])

\* C6 (as claimed): when every item of the evaluation list carries
\* metricName, score and rationale, the record holds <m>_score and
\* <m>_rationale of every item, and no `evaluation` field.
C6_EveryItemFlattened ==
    (Custom /\ HasEvalList /\ \A i \in 1..Len(EvalItems) : Complete(EvalItems[i])) =>
        /\ pc = "returned"
        /\ \A i \in 1..Len(EvalItems) : Emitted(EvalItems[i])
        /\ "evaluation" \notin RetKeys

\* C6 (amended): ... the record holds <m>_score and <m>_rationale of every
\* item that is the last of the list with its metricName (a later item with
\* the same metricName overwrites the fields of an earlier one), and no
\* `evaluation` field.
C6_LastItemOfEachNameFlattened ==
    (Custom /\ HasEvalList /\ \A i \in 1..Len(EvalItems) : Complete(EvalItems[i])) =>
        /\ pc = "returned"
        /\ \A i \in 1..Len(EvalItems) : LastOfName(i) => Emitted(EvalItems[i])
        /\ "evaluation" \notin RetKeys

\* C6 witness: two complete items share a metricName and differ in score,
\* and flatten mode has returned.
C6_Witness ==
    /\ Custom /\ HasEvalList /\ pc = "returned"
    /\ \A i \in 1..Len(EvalItems) : Complete(EvalItems[i])
    /\ \E i, j \in 1..Len(EvalItems) :
           /\ i < j
           /\ NameOf(EvalItems[i]) = NameOf(EvalItems[j])
           /\ DictGet(EvalItems[i].v, "score") # DictGet(EvalItems[j].v, "score")

\* C7: an item of the evaluation list without a metricName (no key, null
\* or empty name, or not an object) is skipped: judge does not raise, the
\* record has no key other than the top-level simple fields, the fields of
\* the named items and the debug key, and the named items are flattened.
C7_UnnamedItemsSkipped ==
    (Custom /\ HasEvalList /\ \E i \in 1..Len(EvalItems) : ~Named(EvalItems[i])) =>
        /\ pc = "returned"
        /\ RetKeys \subseteq
              {"raw_llm_json"}
              \cup {k \in DictKeys(Parsed.val.v) : IsSimple(DictGet(Parsed.val.v, k))}
              \cup {NameOf(EvalItems[i]).v \o "_score" :
                        i \in {n \in 1..Len(EvalItems) : Named(EvalItems[n])}}
              \cup {NameOf(EvalItems[i]).v \o "_rationale" :
                        i \in {n \in 1..Len(EvalItems) : Named(EvalItems[n])}}
        /\ \A i \in 1..Len(EvalItems) :
               (Named(EvalItems[i]) /\ LastOfName(i)) => Emitted(EvalItems[i])

\* C8/C10: trimming and fence removal, stated on positions.
\* Cuts(s): the pairs <<a, b>> such that dropping a leading and b trailing
\* symbols of s drops whitespace only and leaves no whitespace at either end.
Cuts(s) ==
    {c \in (0..Len(s)) \X (0..Len(s)) :
        /\ c[1] + c[2] <= Len(s)
        /\ \A i \in 1..c[1] : s[i] \in Whitespace
        /\ \A i \in (Len(s) - c[2] + 1)..Len(s) : s[i] \in Whitespace
        /\ c[1] + c[2] < Len(s) =>
               /\ s[c[1] + 1] \notin Whitespace
               /\ s[Len(s) - c[2]] \notin Whitespace}
\* x is s without its surrounding whitespace
IsTrimOf(x, s) == \E c \in Cuts(s) : x = SubSeq(s, c[1] + 1, Len(s) - c[2])
\* y is x without the fence markers at its start and at its end
FrontMarkers == {<<>>, Fence, FenceJson, FenceJson \o Fence}
IsFenceStrippedOf(y, x) ==
    \E f \in FrontMarkers, b \in {<<>>, Fence} :
        /\ x = f \o y \o b
        /\ f = <<>> <=> ~StartsWith(x, Fence)
        /\ b = <<>> <=> ~EndsWith(DropFirst(x, Len(f)), Fence)
IsTrimAndFenceStrippedOf(y, s) ==
    \E c \in Cuts(s) : IsFenceStrippedOf(y, SubSeq(s, c[1] + 1, Len(s) - c[2]))
NoBraces(s) == \A i \in 1..Len(s) : s[i] \notin {"{", "}"}

\* C8 (as claimed): on a raw text without "{" and "}", _extract_json of
\* either judge returns the text trimmed and otherwise unchanged.
C8_NoBracesReturnsTrimmed ==
    (Extracted /\ StrOutput /\ NoBraces(raw_output.v)) =>
        /\ clean_output.t = "text"
        /\ IsTrimOf(clean_output.v, raw_output.v)

\* C8 (amended): on a raw text R without "{" and "}",
\* DefaultLlmJudge._extract_json returns R unchanged (it does not trim) and
\* CustomMetricLlmJudge._extract_json returns R trimmed and then relieved of
\* the fence markers at its start and end (so R trimmed, unchanged
\* otherwise, when the trimmed text neither begins nor ends with a fence).
C8_NoBracesDefaultRawCustomTrimmed ==
    (Extracted /\ StrOutput /\ NoBraces(raw_output.v)) =>
        /\ Default => clean_output = raw_output
        /\ Custom =>
              /\ clean_output.t = "text"
              /\ IsTrimAndFenceStrippedOf(clean_output.v, raw_output.v)
              /\ (\E c \in Cuts(raw_output.v) :
                     LET x == SubSeq(raw_output.v, c[1] + 1, Len(raw_output.v) - c[2])
                     IN  ~StartsWith(x, Fence) /\ ~EndsWith(x, Fence))
                     => IsTrimOf(clean_output.v, raw_output.v)

\* C8 witness: the flatten judge extracted from a brace-free text with
\* whitespace around it.
C8_Witness ==
    /\ Extracted /\ StrOutput /\ Custom /\ NoBraces(raw_output.v)
    /\ raw_output.v # <<>>
    /\ raw_output.v[Len(raw_output.v)] \in Whitespace
    /\ clean_output.v # <<>>
    /\ clean_output # raw_output

\* C9: when _extract_json answers from its except branch, what it returns
\* is the input it was given, unmodified.
C9_ExtractErrorReturnsInput ==
    (Extracted /\ caught) => clean_output = raw_output

\* the span from the first "{" of a text through its last "}"
Opens(s)  == {i \in 1..Len(s) : s[i] = "{"}
Closes(s) == {i \in 1..Len(s) : s[i] = "}"}
FirstOpen(s) == CHOOSE i \in Opens(s) : \A j \in Opens(s) : i <= j
LastClose(s) == CHOOSE i \in Closes(s) : \A j \in Closes(s) : j <= i
HasSpan(s) == Opens(s) # {} /\ Closes(s) # {} /\ FirstOpen(s) < LastClose(s)
Span(s) == SubSeq(s, FirstOpen(s), LastClose(s))

\* C10 (as claimed): _extract_json of either judge returns the span from
\* the first "{" through the last "}" when there is one, and otherwise the
\* trimmed (and fence-stripped) text unchanged.
C10_SpanOrTrimmed ==
    (Extracted /\ StrOutput) =>
        /\ clean_output.t = "text"
        /\ IF HasSpan(raw_output.v)
           THEN clean_output.v = Span(raw_output.v)
           ELSE IsTrimAndFenceStrippedOf(clean_output.v, raw_output.v)

\* C10 (amended): ... returns the span from the first "{" through the last
\* "}" when there is one; otherwise CustomMetricLlmJudge returns the
\* trimmed, fence-stripped text unchanged and DefaultLlmJudge, which neither
\* trims nor strips fences, returns the raw text unchanged.
C10_SpanOrRest ==
    (Extracted /\ StrOutput) =>
        /\ clean_output.t = "text"
        /\ IF HasSpan(raw_output.v)
           THEN clean_output.v = Span(raw_output.v)
           ELSE /\ Default => clean_output = raw_output
                /\ Custom => IsTrimAndFenceStrippedOf(clean_output.v, raw_output.v)

\* C10 witness: the extracted span runs over two separate objects.
C10_Witness ==
    /\ Extracted /\ StrOutput /\ HasSpan(raw_output.v)
    /\ \E i, j \in 1..Len(clean_output.v) :
           /\ i < j /\ j < Len(clean_output.v)
           /\ clean_output.v[i] = "}"
           /\ clean_output.v[j] = "{"
           /\ \A k \in (i+1)..(j-1) : clean_output.v[k] \notin {"{", "}"}
           /\ Cardinality({k \in 1..i : clean_output.v[k] = "{"})
                = Cardinality({k \in 1..i : clean_output.v[k] = "}"})


\* C11: what is left of a trimmed text x once its opening markers f and
\* its closing marker b are taken off.
\* OneOpening: at most one opening marker goes, "```json" or "```".
StrippedOnce(y, x) ==
    \E f \in {<<>>, Fence, FenceJson}, b \in {<<>>, Fence} :
        /\ x = f \o y \o b
        /\ f = <<>> <=> ~StartsWith(x, Fence)
        /\ f = FenceJson <=> StartsWith(x, FenceJson)
        /\ b = <<>> <=> ~EndsWith(DropFirst(x, Len(f)), Fence)
\* a "```json" marker goes, and then a "```" marker that follows it goes too
StrippedAsCoded(y, x) ==
    \E f \in FrontMarkers, b \in {<<>>, Fence} :
        /\ x = f \o y \o b
        /\ f = <<>> <=> ~StartsWith(x, Fence)
        /\ f = Fence <=> (StartsWith(x, Fence) /\ ~StartsWith(x, FenceJson))
        /\ f = FenceJson \o Fence <=> StartsWith(x, FenceJson \o Fence)
        /\ b = <<>> <=> ~EndsWith(DropFirst(x, Len(f)), Fence)
Trimmed(s, c) == SubSeq(s, c[1] + 1, Len(s) - c[2])

\* C11 (as claimed): _extract_json of either judge removes from the trimmed
\* text one opening marker ("```json" or "```") when it begins with one and
\* one closing marker when it ends with one, each whether or not the other
\* is there, and never more than one of each.  (Read on texts without a
\* brace span, where what is returned is the stripped text itself, and on
\* texts with no white space at either end, where trimming changes nothing.)
C11_OneMarkerEachSide ==
    (Extracted /\ StrOutput /\ ~HasSpan(raw_output.v)
              /\ IsTrimOf(raw_output.v, raw_output.v)) =>
        /\ clean_output.t = "text"
        /\ StrippedOnce(clean_output.v, raw_output.v)

\* C11 (amended): CustomMetricLlmJudge._extract_json removes from the
\* trimmed text a leading "```json" marker and then a leading "```" marker
\* (so "```json```" loses both, any other text at most one opening marker)
\* and then one trailing "```" marker, each whether or not the others are
\* there; DefaultLlmJudge._extract_json removes no marker.
C11_MarkersAsCoded ==
    (Extracted /\ StrOutput /\ ~HasSpan(raw_output.v)) =>
        /\ Default => clean_output = raw_output
        /\ Custom =>
              /\ clean_output.t = "text"
              /\ \E c \in Cuts(raw_output.v) :
                     StrippedAsCoded(clean_output.v, Trimmed(raw_output.v, c))

\* C11 witness: the flatten judge extracted from a text that opens with
\* "```json```" and has no closing marker.
C11_Witness ==
    /\ Extracted /\ StrOutput /\ Custom /\ ~HasSpan(raw_output.v)
    /\ StartsWith(raw_output.v, FenceJson \o Fence)
    /\ ~EndsWith(raw_output.v, Fence)
    /\ clean_output.v # <<>>
    /\ clean_output.v = DropFirst(raw_output.v, Len(FenceJson \o Fence))


\* C12: the wrappings of a JSON text J: a fence marker in front (with or
\* without the json hint and a line break), one behind, or both.
OpenMarks  == {<<>>, Fence, FenceJson, Fence \o <<"\n">>, FenceJson \o <<"\n">>}
CloseMarks == {<<>>, Fence, <<"\n">> \o Fence}
IsObjectText(J) ==
    LET p == JsonLoads(PyText(J)) IN p.exc = "none" /\ p.val.t = "dict"
\* the inner texts J of which s is a wrapping
Wrapped(s) ==
    {J \in {SubSeq(s, Len(w[1]) + 1, Len(s) - Len(w[2])) :
                w \in {x \in OpenMarks \X CloseMarks :
                          /\ Len(x[1]) + Len(x[2]) > 0
                          /\ Len(x[1]) + Len(x[2]) <= Len(s)
                          /\ StartsWith(s, x[1])
                          /\ EndsWith(s, x[2])}} :
        IsObjectText(J)}
\* what judge of class c returns or raises for the backend output raw
RunAlone(c, raw) ==
    LET clean == ExtractJson(c, raw).out
    IN  IF c = "DefaultLlmJudge" THEN NormalizeDefault(raw, clean)
        ELSE NormalizeCustom(raw, clean)
Outcome == [exc |-> exc, ret |-> ret]
Finished == pc \in {"returned", "raised"}

Fields == Parsed.val.v
\* the value the record holds under key k
Held(k) == (CHOOSE i \in 1..Len(ret.v) : ret.v[i].k = k)
LastOfLower(i) ==
    \A j \in (i+1)..Len(Fields) : Lower(Fields[j].k) # Lower(Fields[i].k)

\* C13 (as claimed): in simple mode, for an output that parses to an object,
\* the record holds under the lower-cased form of every top-level key the
\* value the object held under that key; no field is lost, also when two
\* keys differ only in letter case.
C13_EveryKeyLowercasedKept ==
    (ParsedObject /\ Default) =>
        /\ pc = "returned" /\ ret.t = "dict"
        /\ \A i \in 1..Len(Fields) :
               /\ Lower(Fields[i].k) \in RetKeys
               /\ ret.v[Held(Lower(Fields[i].k))].v = Fields[i].v

\* C13 (amended): in simple mode, for an output that parses to an object,
\* the record's keys are the lower-cased forms of the object's top-level
\* keys, each mapped, unchanged, to the value of the last key of the object
\* with that lower-cased form; a field is lost exactly when a later key
\* differs from its key only in letter case.
C13_LastKeyOfEachLowercaseKept ==
    (ParsedObject /\ Default) =>
        /\ pc = "returned" /\ ret.t = "dict"
        /\ RetKeys = {Lower(Fields[i].k) : i \in 1..Len(Fields)}
        /\ \A i \in 1..Len(Fields) :
               LastOfLower(i) => ret.v[Held(Lower(Fields[i].k))].v = Fields[i].v

\* C13 witness: simple mode returned a record for an object with the keys
\* "Score" and "score".
C13_Witness ==
    /\ ParsedObject /\ Default /\ pc = "returned"
    /\ {"Score", "score"} \subseteq DictKeys(Fields)
    /\ "score" \in RetKeys


\* C14: the top-level scalar fields (string, number, boolean) of the parsed
\* object, and the keys that flattening the evaluation list writes.
IsScalar(x) == x.t \in {"str", "num", "bool"}
Kept(f) == f.k \in RetKeys /\ DictGet(ret.v, f.k) = f.v
MetricKeys ==
    IF HasEvalList
    THEN UNION {{NameOf(EvalItems[i]).v \o "_score",
                 NameOf(EvalItems[i]).v \o "_rationale"} :
                    i \in {j \in 1..Len(EvalItems) : Named(EvalItems[j])}}
    ELSE {}
DebugKept ==
    "raw_llm_json" \in RetKeys /\ DictGet(ret.v, "raw_llm_json") = clean_output
FlatReturned == ParsedObject /\ Custom /\ pc = "returned"

\* C14 (as claimed): in flatten mode every top-level scalar field of the
\* parsed object is in the record under its own key with its own value,
\* and raw_llm_json holds the extracted text, also when a flattened metric
\* key or the debug key has the name of a top-level scalar field.
C14_TopLevelScalarsAlwaysKept ==
    FlatReturned =>
        /\ DebugKept
        /\ \A i \in 1..Len(Fields) : IsScalar(Fields[i].v) => Kept(Fields[i])

\* C14 (amended): in flatten mode raw_llm_json always holds the extracted
\* text, and every top-level string, number or boolean field of the parsed
\* object whose key is neither raw_llm_json nor a flattened metric key of
\* the evaluation list is in the record under its own key with its own
\* value; a field with one of those keys is overwritten.
C14_TopLevelScalarsKeptUnlessOverwritten ==
    FlatReturned =>
        /\ DebugKept
        /\ \A i \in 1..Len(Fields) :
               (/\ IsScalar(Fields[i].v)
                /\ Fields[i].k \notin MetricKeys \cup {"raw_llm_json"})
                   => Kept(Fields[i])

\* C14 witness: flatten mode returned a record for an object whose
\* top-level number field tone_score meets the flattened key of the metric
\* "tone", and whose top-level raw_llm_json meets the debug key.
C14_Witness ==
    /\ FlatReturned
    /\ "tone_score" \in MetricKeys
    /\ \E i, j \in 1..Len(Fields) :
           /\ Fields[i].k = "tone_score" /\ IsScalar(Fields[i].v)
           /\ Fields[j].k = "raw_llm_json" /\ IsScalar(Fields[j].v)


\* C15: the steps a call has completed, read off its position, and the
\* moves from one position to the next.
StepsDone ==
    CASE pc = "idle"      -> 0
      [] pc = "rendered"  -> 1
      [] pc = "generated" -> 2
      [] pc = "extracted" -> 3
      [] pc = "returned"  -> 4
      [] pc = "raised"    -> IF clean_output # Unset THEN 4
                             ELSE IF calls > 0 THEN 2 ELSE 1
StepOrder ==
    /\ <<pc, pc'>> \in {<<"idle", "rendered">>, <<"idle", "raised">>,
                        <<"rendered", "generated">>, <<"rendered", "raised">>,
                        <<"generated", "extracted">>,
                        <<"extracted", "returned">>, <<"extracted", "raised">>}
    /\ calls' = IF pc = "rendered" THEN calls + 1 ELSE calls
    /\ raw_output' # raw_output => pc = "rendered"
    /\ clean_output' # clean_output => pc = "generated"
    /\ ret' # ret => pc = "extracted"
OneAttempt ==
    /\ calls <= 1
    /\ calls = 1 <=> StepsDone >= 2
    /\ (raw_output # Unset \/ clean_output # Unset \/ ret # Unset) => calls = 1

\* C15: every judge call goes render, generate, extract, normalize, one
\* step at a time in that order, and invokes generate exactly once; after a
\* parse failure generate is not invoked again.
C15_StepsInOrderOneGenerate == [][StepOrder]_vars /\ []OneAttempt

\* C15 witness: a call that ended in a parse-failure record, having invoked
\* generate once.
C15_Witness ==
    /\ pc = "returned" /\ ParseFailed /\ calls = 1 /\ StepsDone = 4


\* C17: generate of the call raised (the call left judge at step 2)
GenerateRaised == pc = "raised" /\ calls = 1 /\ raw_output = Unset
GenerateDone   == calls = 1

\* C17: generate of GeminiClient and of LMStudioClient never raises for an
\* ordinary provider error (network failure, HTTP error status, safety
\* rejection, empty completion, invalid generation options) and always
\* returns a string.
C17_AdaptersAlwaysReturnString ==
    (GenerateDone /\ backend \in Adapters) =>
        /\ ~GenerateRaised
        /\ raw_output.t = "text"

\* C19: rendering raised (the call left judge at step 1)
RenderRaised == pc = "raised" /\ calls = 0
RenderDone   == pc # "idle"

\* C19: rendering surfaces no error for any template: it returns a string,
\* also for a template without the subject or rules marker and for one with
\* other brace characters, and changes nothing but the rendered prompt.
C19_RenderNeverRaises ==
    RenderDone =>
        /\ ~RenderRaised
        /\ meta_prompt.t = "str"


\* C16: what caller c holds agrees with a call run alone on its own subject
\* text, its own rules and the backend's answer to its own prompt.
OwnPrompt(fr) == Format(DefaultTemplate(judge_obj.cls), fr.rules.v, fr.prompt.v)
AsRunAlone(fr) ==
    /\ fr.pc # "idle" =>
           /\ fr.meta_prompt = OwnPrompt(fr).out
           /\ fr.pc = "raised" /\ fr.sent = Unset => fr.exc = OwnPrompt(fr).exc
    /\ fr.sent # Unset => fr.sent = OwnPrompt(fr).out
    /\ fr.clean_output # Unset =>
           fr.clean_output = ExtractJson(judge_obj.cls, fr.raw_output).out
    /\ (fr.pc \in {"returned", "raised"} /\ fr.raw_output # Unset) =>
           [exc |-> fr.exc, ret |-> fr.ret] = RunAlone(judge_obj.cls, fr.raw_output)
ObjectUntouched ==
    /\ judge_obj' = judge_obj
    /\ \A c \in Callers : \A d \in Callers \ {c} :
           frames'[c] # frames[c] => frames'[d] = frames[d]

\* C16: when several judge calls run concurrently on one judge object with
\* a stateless backend, under every interleaving each call ends as it would
\* alone on its own subject text, rules and backend output, no step of one
\* call touches the locals of another, and the judge's template and backend
\* reference never change.
C16_CallsIndependent ==
    /\ [](\A c \in Callers : AsRunAlone(frames[c]))
    /\ [](judge_obj.prompt_template = DefaultTemplate(judge_obj.cls))
    /\ [][ObjectUntouched]_vars

\* C16 witness: both callers have returned a record, for different subject
\* texts and different backend outputs.
C16_Witness ==
    /\ \A c \in Callers : frames[c].pc = "returned"
    /\ frames[1].prompt # frames[2].prompt
    /\ frames[1].raw_output # frames[2].raw_output
    /\ frames[1].ret # frames[2].ret


\* C18: the last step ran a command that exited non-zero
LastRun == executed[Len(executed)]
CommandFailed == executed # <<>> /\ LastRun.started /\ ~LastRun.ok
Carries(e, what, value) ==
    \E i \in 1..Len(e.carries) :
        e.carries[i].what = what /\ e.carries[i].value = value

\* C18: when a command run by the tracker exits non-zero, the failure is
\* raised to the caller as an error of the library's own kind (not a
\* process exit) that carries the failed command and the captured
\* diagnostic output.
C18_FailureRaisedWithCommandAndOutput ==
    CommandFailed =>
        /\ raised.type \notin {"none", "SystemExit"}
        /\ Carries(raised, "command", LastRun.command)
        /\ Carries(raised, "diagnostics", <<LastRun.stderr>>)

\* C20: the order of the steps of sync_data
SyncOrder == << "pull", "validate", "add_input", "add_output", "status",
                "git_add", "commit", "push" >>
DoneBefore(name, i) ==
    \E j \in 1..(i-1) : executed[j].step = name /\ executed[j].ok

\* C20: in every execution of sync / sync_data the steps run in the order
\* pull, validations, dvc add of input and output, git status, git add,
\* git commit, push; a push runs only after the pull, both dvc add commands
\* and the git commit of the same execution have succeeded; and a step that
\* fails is the last step to run.
C20_SyncOrderAndStopOnFailure ==
    /\ Len(executed) <= Len(SyncOrder)
    /\ \A i \in 1..Len(executed) : executed[i].step = SyncOrder[i]
    /\ \A i \in 1..Len(executed) :
           executed[i].step = "push" =>
               \A n \in {"pull", "add_input", "add_output", "commit"} : DoneBefore(n, i)
    /\ \A i \in 1..Len(executed) :
           ~executed[i].ok =>
               /\ i = Len(executed)
               /\ sync_pc = "exited"
               /\ raised # NoException
    /\ sync_pc = "exited" => executed # <<>> /\ ~LastRun.ok

\* C20 witness: a sync that ran all eight steps and pushed.
C20_Witness ==
    /\ sync_pc = "done" /\ entry = "sync"
    /\ Len(executed) = Len(SyncOrder)
    /\ LastRun.step = "push" /\ LastRun.ok


\* C21: the status outputs that report a modified .dvc metadata file of the
\* tracked directories (the other outputs name no such file: nothing, a
\* note file, the .dvcignore file).
ReportsDvcFileModified ==
    {" M data/input.dvc\n", " M data/input.dvc\n M data/output.dvc\n"}
StatusRead == git_status_result # Unset
StepsRun == {executed[i].step : i \in 1..Len(executed)}
CommitSteps == {"git_add", "commit", "push"}

\* C21: sync_data stages, commits and pushes if and only if a .dvc metadata
\* file is modified after tracking: when none is modified it returns after
\* the git status check without git add, git commit or dvc push, and when
\* one is modified a sync that runs to its end has executed all three.
C21_CommitIffDvcFileModified ==
    StatusRead =>
        IF git_status_result.v \in ReportsDvcFileModified
        THEN sync_pc = "done" => CommitSteps \subseteq StepsRun
        ELSE sync_pc = "done" /\ StepsRun \cap CommitSteps = {}


\* ---- C22
SetupPhase(e) ==
    CASE e.op = "mkdir" -> 1
      [] e.op \in {"head_bucket", "create_bucket"} -> 2
      [] e.op = "run" /\ e.command[1] = "dvc" /\ e.command[2] \in {"init", "remote"} -> 3
      [] OTHER -> 4

LogOps(op) == {i \in 1..Len(setup_log) : setup_log[i].op = op}

\* the bucket is known to exist: head_bucket succeeded, or it answered 404
\* and the create_bucket that followed succeeded
BucketKnown ==
    \E j \in LogOps("head_bucket") :
        \/ setup_log[j].ok
        \/ /\ setup_log[j].code = "404"
           /\ j + 1 \in LogOps("create_bucket")
           /\ setup_log[j + 1].ok

BucketStepFailed ==
    \/ \E j \in LogOps("head_bucket") : ~setup_log[j].ok /\ setup_log[j].code # "404"
    \/ \E j \in LogOps("create_bucket") : ~setup_log[j].ok

\* C22: setup runs directory creation, the bucket check, the DVC remote
\* configuration and the data bootstrap in that order; a DVC or git command
\* runs only once the bucket is known to exist (head_bucket succeeded, or
\* answered 404 and the one create_bucket after it succeeded); create_bucket
\* is called at most once, only right after a 404 and never for an existing
\* bucket; any other check or creation failure ends the setup with no command run.
C22_SetupOrderAndBucketGate ==
    /\ \A i \in 1..Len(setup_log) : \A j \in i..Len(setup_log) :
           SetupPhase(setup_log[i]) <= SetupPhase(setup_log[j])
    /\ setup_pc = "done" =>
           {SetupPhase(setup_log[i]) : i \in 1..Len(setup_log)} = 1..4
    /\ LogOps("run") # {} => BucketKnown
    /\ setup_pc \in {"bucket", "configured", "done"} => BucketKnown
    /\ Cardinality(LogOps("create_bucket")) <= 1
    /\ \A i \in LogOps("create_bucket") :
           /\ i - 1 \in LogOps("head_bucket")
           /\ setup_log[i - 1].code = "404"
           /\ bucket # "exists"
    /\ BucketStepFailed => setup_pc = "exited" /\ LogOps("run") = {}

\* a setup that found the bucket missing, created it, and pushed
C22_Witness ==
    /\ setup_pc = "done"
    /\ LogOps("create_bucket") # {}
    /\ \E i \in LogOps("run") : setup_log[i].command = DvcPush /\ setup_log[i].ok


\* ---- C23
Statuses(span) ==
    {span.attributes[i].v : i \in {j \in 1..Len(span.attributes) :
                                       span.attributes[j].k = "status"}}
AttributeKeys(span) == {span.attributes[i].k : i \in 1..Len(span.attributes)}
CallsOf(n) == {i \in Events("call") : task_log[i].invocation = n}
EndsOf(n) == {i \in Events("end") : task_log[i].invocation = n}
\* the spans whose invocation has set what it sets: those that ended, and
\* the one about to be left
RecordedSpans ==
    {i \in 1..Len(spans) : spans[i].ended \/ (i = Len(spans) /\ task_pc = "recorded")}

\* C23: with a tracker active, an invocation runs the function exactly once
\* inside its span; if the function returns, outputs and status = success
\* are on the span before the same result is returned; if it raises,
\* status = error and error.message are on the span before the same
\* exception is raised again; a span never ends with both status values
\* nor without a status.
C23_SpanStatusAlwaysSet ==
    \A i \in RecordedSpans :
        LET s == spans[i]
            n == s.invocation
        IN  /\ Cardinality(CallsOf(n)) = 1
            /\ \A c \in CallsOf(n) :
                   LET o == task_log[c].outcome IN
                   /\ \A e \in EndsOf(n) : task_log[e].outcome = o
                   /\ o.kind = "returned" =>
                          /\ s.outputs = << [k |-> "result", v |-> Str(o.value)] >>
                          /\ Statuses(s) = {"success"}
                   /\ o.kind = "raised" =>
                          /\ Statuses(s) = {"error"}
                          /\ "error.message" \in AttributeKeys(s)
            /\ Cardinality(Statuses(s)) = 1
            /\ s.ended => Cardinality(EndsOf(n)) = 1


\* ---- C24
\* the tracker most recently passed to set_tracker before position i of the
\* history, "None" when there was no such call
LastSetBefore(i) ==
    LET S == {j \in Events("set_tracker") : j < i}
    IN  IF S = {} THEN "None"
        ELSE task_log[CHOOSE j \in S : \A k \in S : k <= j].tracker
SpansOf(n) == {i \in 1..Len(spans) : spans[i].invocation = n}

\* C24: get_tracker returns the tracker most recently passed to set_tracker,
\* or none if there was no call; the tracker is read at each invocation: an
\* invocation made while no tracker is set opens no span, runs the function
\* once and ends as the function did; an invocation made after a set_tracker
\* call opens its one span on the tracker set most recently before it.
C24_TrackerReadAtInvocation ==
    /\ GetTracker = LastSetBefore(Len(task_log) + 1)
    /\ \A i \in 1..Len(spans) :
           \E j \in Events("invoke") : task_log[j].invocation = spans[i].invocation
    /\ \A i \in Events("invoke") :
           LET n == task_log[i].invocation
               t == LastSetBefore(i)
           IN  IF t = "None"
               THEN /\ SpansOf(n) = {}
                    /\ EndsOf(n) # {} =>
                           /\ Cardinality(CallsOf(n)) = 1
                           /\ \A c \in CallsOf(n) : \A e \in EndsOf(n) :
                                  c < e /\ task_log[e].outcome = task_log[c].outcome
               ELSE /\ Cardinality(SpansOf(n)) <= 1
                    /\ \A k \in SpansOf(n) : spans[k].tracker = t
                    /\ CallsOf(n) # {} => Cardinality(SpansOf(n)) = 1

\* one invocation ran untraced and returned, and a later one, made after two
\* set_tracker calls, ended its span on the second tracker
C24_Witness ==
    /\ \E e \in Events("end") :
           task_log[e].tracker = "None" /\ task_log[e].outcome.kind = "returned"
    /\ \E k \in 1..Len(spans) :
           /\ spans[k].ended
           /\ spans[k].tracker = "tracker_b"
           /\ \E i \in Events("invoke") :
                  /\ task_log[i].invocation = spans[k].invocation
                  /\ Cardinality({j \in Events("set_tracker") : j < i}) = 2


\* ---- C25
\* json.dumps can write x: nothing in it is bytes
RECURSIVE Serializable(_)
Serializable(x) ==
    CASE x.t \in {"null", "num", "bool", "str", "text"} -> TRUE
      [] x.t = "list" -> \A i \in 1..Len(x.v) : Serializable(x.v[i])
      [] x.t = "dict" -> \A i \in 1..Len(x.v) : Serializable(x.v[i].v)
      [] OTHER -> FALSE
\* x as json.loads gives it back: every str an atomic name
RECURSIVE AsParsed(_)
AsParsed(x) ==
    CASE x.t = "text" -> PyStr(Escaped(x.v))
      [] x.t = "list" -> PyList([i \in 1..Len(x.v) |-> AsParsed(x.v[i])])
      [] x.t = "dict" -> PyDict([i \in 1..Len(x.v) |->
                                    [k |-> x.v[i].k, v |-> AsParsed(x.v[i].v)]])
      [] OTHER -> x
\* the failure the fallback names: the exception of the judge, or the
\* TypeError of json.dumps
Failure(o) == IF o.exc = "none" THEN "TypeError" ELSE o.exc
JudgeSerializable == judge_result.exc = "none" /\ Serializable(judge_result.ret)

\* C25: _call_model never raises and returns a string that parses as a JSON
\* object: the serialization of the record of the judge when the judge
\* returned a serializable record, otherwise the fallback object with score
\* 0.0 and an explanation naming the failure; each call invokes the judge
\* exactly once, with the prompt of the call and the rules of the adapter.
C25_CallModelAlwaysJsonObject ==
    adapter_pc = "answered" =>
        /\ call_out.exc = "none"
        /\ call_out.ret.t = "text"
        /\ LET p == JsonLoads(call_out.ret) IN
               /\ p.exc = "none"
               /\ p.val.t = "dict"
               /\ IF JudgeSerializable
                  THEN p.val = AsParsed(judge_result.ret)
                  ELSE p.val = PyDict(<< [k |-> "score", v |-> PyNum("0.0")],
                                         [k |-> "explanation",
                                          v |-> PyStr("Evaluation failed: "
                                                      \o Failure(judge_result))] >>)
        /\ Len(judge_calls) = Len(model_calls)
        /\ \A i \in 1..Len(judge_calls) :
               judge_calls[i] = [prompt |-> model_calls[i], rules |-> adapter_rules]

\* a second call answered with the fallback because the record of the judge
\* holds bytes
C25_Witness ==
    /\ adapter_pc = "answered"
    /\ Len(model_calls) = 2
    /\ judge_result.exc = "none"
    /\ ~Serializable(judge_result.ret)
====
